---- MODULE Spec2Model ----
(***************************************************************************)
(* A state-machine model of the AIgentOS kernel API (src/kernel/api):      *)
(* the token estimator, the prompt composer over the relational store,     *)
(* the context settings, the warm-up gate and the baseline job table.      *)
(*                                                                         *)
(* Conventions.                                                            *)
(*  - A Python Optional is a sequence of length at most one: None is <<>>  *)
(*    and a present value v is <<v>>.                                      *)
(*  - A str is kept run-length encoded: a sequence of runs [ch, n] with    *)
(*    n > 0 and adjacent runs of different characters.  The encoding is    *)
(*    exact: len, strip and concatenation are computed on it.              *)
(*  - A float percentage is kept as an integer number of hundredths.       *)
(*  - uuid4 identifiers are the row's creation index.                      *)
(*  - One action is one stretch of a coroutine between two suspensions of  *)
(*    the event loop (the awaits on the model backend and on the lock).    *)
(***************************************************************************)
EXTENDS Integers, Sequences, FiniteSets, TLC

VARIABLES
    prompt_profiles,      \* rows of table prompt_profiles, in insertion order
    prompt_overrides,     \* rows of table prompt_component_overrides
    context_settings,     \* Optional row of table prompt_context_settings
    warmup_completed_at,  \* main._warmup_completed_at is not None
    warmup_lock,          \* main._warmup_lock: holder and FIFO waiters
    warmups,              \* the llm_warmup requests and where each stands
    baseline_jobs,        \* main._baseline_jobs, keyed by creation index
    tasks,                \* the coroutine executing each job
    response,             \* what the last finished handler answered
    pruning_threshold,    \* Optional context_strategy.pruning_threshold of agent.yaml
    ollama_context_window,\* settings.ollama_context_window (OLLAMA_CONTEXT_WINDOW)
    last_override,        \* history: the last component override and the prompt before it
    prompt_components,    \* the component list a caller hands to compose_system_prompt
    arguments,            \* Optional arguments a caller holds for a helper of main
    ops,                  \* store handler invocations so far
    conversations,        \* tables conversations and messages, by creation index
    performance_exchanges,\* rows of table performance_exchanges
    chats                 \* the POST /api/chat requests and where each stands

vars == <<prompt_profiles, prompt_overrides, context_settings,
          pruning_threshold, ollama_context_window, last_override, prompt_components, arguments, ops, conversations, performance_exchanges, chats,
          warmup_completed_at, warmup_lock, warmups,
          baseline_jobs, tasks, response>>

storeVars == <<prompt_profiles, prompt_overrides, context_settings>>
warmupVars == <<warmup_completed_at, warmup_lock, warmups>>
jobVars == <<baseline_jobs, tasks>>
chatVars == <<conversations, performance_exchanges, chats>>

---------------------------------------------------------------------------
(* Bounds of the model. *)

MaxJobs == 1        \* entries of the job table (start() and direct runs)
MaxBackendJobs == 2 \* entries of the job table where runs overlap
MaxWarmups == 3     \* warm-up requests
MaxChats == 2       \* chat requests
MaxProfiles == 3    \* rows of prompt_profiles
MaxOps == 4         \* store handler invocations in one behaviour
MaxConversationOps == 2    \* conversations created and deleted by request
MaxComponents == 3         \* components of a list handed to the composer
MaxMessages == 3    \* messages of a list handed to the estimator
MaxTextChars == 9   \* characters of a text handed to the estimator
MaxTargetTokens == 40   \* the run of small targets handed to the payload builders
MaxAppends == 103   \* progress reports appended to one event log
MaxRewrites == 2         \* reads and updates of the context settings between chat turns
MaxTurns == 1            \* chat turns between the reads and updates
MaxPromptTokens == 6     \* largest prompt-token total a backend reports to the allocation
MaxRoleChars == 3        \* largest character count of one role in the allocation

---------------------------------------------------------------------------
(* Optionals and strings. *)

None == <<>>
Some(v) == <<v>>
IsNone(o) == o = <<>>
OrElse(o, d) == IF o = <<>> THEN d ELSE o[1]

Str(ch, n) == IF n = 0 THEN <<>> ELSE <<[ch |-> ch, n |-> n]>>

RECURSIVE StrLen(_)
StrLen(s) == IF s = <<>> THEN 0 ELSE Head(s).n + StrLen(Tail(s))

Concat(a, b) ==
    IF a = <<>> THEN b
    ELSE IF b = <<>> THEN a
    ELSE IF a[Len(a)].ch = b[1].ch
         THEN SubSeq(a, 1, Len(a) - 1)
              \o <<[ch |-> b[1].ch, n |-> a[Len(a)].n + b[1].n]>>
              \o Tail(b)
         ELSE a \o b

\* the characters str.strip() removes (those str.isspace() is true of);
\* a character a string literal cannot hold is written as its code point
Whitespace ==
    {" ", "\t", "\n", "\r", "\f", "U+000B", "U+001C", "U+001D", "U+001E",
     "U+001F", "U+0085", "U+00A0", "U+1680", "U+2000", "U+2001", "U+2002",
     "U+2003", "U+2004", "U+2005", "U+2006", "U+2007", "U+2008", "U+2009",
     "U+200A", "U+2028", "U+2029", "U+202F", "U+205F", "U+3000"}

\* str.strip(): the whitespace runs at both ends are removed
RECURSIVE LStrip(_)
LStrip(s) == IF s # <<>> /\ Head(s).ch \in Whitespace THEN LStrip(Tail(s)) ELSE s

RECURSIVE RStrip(_)
RStrip(s) ==
    IF s # <<>> /\ s[Len(s)].ch \in Whitespace
    THEN RStrip(SubSeq(s, 1, Len(s) - 1)) ELSE s

Strip(s) == RStrip(LStrip(s))

CeilDiv(a, b) == (a + b - 1) \div b
Max(a, b) == IF a >= b THEN a ELSE b
Min(a, b) == IF a <= b THEN a ELSE b

RECURSIVE SumLen(_)
SumLen(messages) ==
    IF messages = <<>> THEN 0
    ELSE StrLen(Head(messages).content) + SumLen(Tail(messages))

\* variant: the estimate without its floor of one token
estimate_tokens_for_messages_NoFloor(messages) == CeilDiv(SumLen(messages), 4)

estimate_tokens_for_messages(messages) == Max(1, CeilDiv(SumLen(messages), 4))

estimate_tokens_for_text(text) == Max(1, CeilDiv(StrLen(text), 4))

---------------------------------------------------------------------------
(* Configuration: settings.get_settings() and the agent-prompts directory. *)

\* OLLAMA_CONTEXT_WINDOW: the smallest window _int_env accepts
smallest_window == 256

\* OLLAMA_MAX_RESPONSE_TOKENS: its default
ollama_max_response_tokens == 512

\* storage.default_compaction_instructions(): 281 non-blank characters
default_compaction_instructions == Str("i", 281)

\* main._default_compact_trigger(): the configured float, unvalidated,
\* and 0.9 when the file or the key is absent
default_compact_trigger == OrElse(pruning_threshold, 90)

\* prompts.load_prompt_components(): one component per *.md file, in
\* sorted file order, order = index, enabled, content stripped
DefaultComponents ==
    << [id |-> "c1", content |-> Str("a", 20), order |-> 0, enabled |-> TRUE],
       [id |-> "c2", content |-> Str("b", 12), order |-> 1, enabled |-> TRUE] >>

ComponentIds == {DefaultComponents[i].id : i \in 1..Len(DefaultComponents)}

---------------------------------------------------------------------------
(* storage.ChatStore: prompt profiles and overrides. *)

\* a profile name is the sequence of the code points of its characters,
\* so that names can be compared as the database compares them
DefaultName == <<68, 101, 102, 97, 117, 108, 116>>    \* "Default"

\* the code points str.strip() removes: those of the characters for
\* which str.isspace() holds
WhitespaceCodes ==
    {9, 10, 11, 12, 13, 28, 29, 30, 31, 32, 133, 160, 5760}
        \cup 8192..8202 \cup {8232, 8233, 8239, 8287, 12288}

RECURSIVE LStripName(_)
LStripName(name) ==
    IF name # <<>> /\ Head(name) \in WhitespaceCodes THEN LStripName(Tail(name)) ELSE name

RECURSIVE RStripName(_)
RStripName(name) ==
    IF name # <<>> /\ name[Len(name)] \in WhitespaceCodes
    THEN RStripName(SubSeq(name, 1, Len(name) - 1)) ELSE name

\* name.strip()
StripName(name) == RStripName(LStripName(name))

\* the row a SELECT ... WHERE is_default = 1 LIMIT 1 returns
FirstDefault(rows) == CHOOSE i \in 1..Len(rows) :
    rows[i].is_default /\ \A k \in 1..(i - 1) : ~rows[k].is_default

\* the row a SELECT ... WHERE is_active = 1 LIMIT 1 returns
FirstActive(rows) == CHOOSE i \in 1..Len(rows) :
    rows[i].is_active /\ \A k \in 1..(i - 1) : ~rows[k].is_active

\* ensure_default_prompt_profile: the table after the call
ensure_default_prompt_profile(rows) ==
    IF \E i \in 1..Len(rows) : rows[i].is_default
    THEN LET d == FirstDefault(rows)
         IN IF ~rows[d].is_active
            THEN [k \in 1..Len(rows) |-> [rows[k] EXCEPT !.is_active = (k = d)]]
            ELSE rows
    ELSE Append(rows, [id |-> Len(rows) + 1, name |-> DefaultName,
                       is_default |-> TRUE, is_active |-> TRUE])

\* get_active_prompt_profile: the row it returns, read after the ensure
ActiveRow(rows) == rows[FirstActive(rows)]

get_active_prompt_profile(rows) == ActiveRow(ensure_default_prompt_profile(rows))

\* variant: the created profile is a default profile
create_prompt_profile_AsDefault(rows, name) ==
    Append(rows, [id |-> Len(rows) + 1, name |-> StripName(name),
                  is_default |-> TRUE, is_active |-> FALSE])

create_prompt_profile(rows, name) ==
    Append(rows, [id |-> Len(rows) + 1, name |-> StripName(name),
                  is_default |-> FALSE, is_active |-> FALSE])

\* name ASC under the BINARY collation: a before b
RECURSIVE NameBefore(_, _)
NameBefore(a, b) ==
    IF b = <<>> THEN FALSE
    ELSE IF a = <<>> THEN TRUE
    ELSE IF Head(a) # Head(b) THEN Head(a) < Head(b)
    ELSE NameBefore(Tail(a), Tail(b))

\* ORDER BY is_active DESC, is_default DESC, name ASC: row a must be
\* listed before row b
ListedBefore(a, b) ==
    IF a.is_active # b.is_active THEN a.is_active
    ELSE IF a.is_default # b.is_default THEN a.is_default
    ELSE NameBefore(a.name, b.name)

\* the lists the SELECT of list_prompt_profiles can return for a table
\* with the default profile ensured: the rows in the order of the ORDER
\* BY clause, rows that tie on all three keys in either order
list_prompt_profiles(rows) ==
    LET n == Len(rows)
        orders == {f \in [1..n -> 1..n] :
                     /\ \A i, j \in 1..n : i # j => f[i] # f[j]
                     /\ \A i, j \in 1..n :
                           i < j => ~ListedBefore(rows[f[j]], rows[f[i]])}
    IN {[i \in 1..n |-> rows[f[i]]] : f \in orders}

\* variant: every id is taken to name a profile
ProfileExists_Always(rows, profile_id) == TRUE

ProfileExists(rows, profile_id) == \E i \in 1..Len(rows) : rows[i].id = profile_id

\* activate_prompt_profile: the table after a call that returns True
activate_prompt_profile(rows, profile_id) ==
    [k \in 1..Len(rows) |-> [rows[k] EXCEPT !.is_active = (rows[k].id = profile_id)]]

\* get_prompt_overrides: component_id -> {content, enabled} of one profile
get_prompt_overrides(overrides, profile_id) ==
    [c \in {k[2] : k \in {x \in DOMAIN overrides : x[1] = profile_id}}
        |-> overrides[<<profile_id, c>>]]

\* upsert_prompt_override: INSERT, or UPDATE with COALESCE(new, old)
\* variant: the update writes both parameters as given, null included
upsert_prompt_override_Overwrites(overrides, profile_id, component_id, content, enabled) ==
    LET key == <<profile_id, component_id>>
    IN [k \in DOMAIN overrides \cup {key} |->
           IF k = key THEN [content |-> content, enabled |-> enabled] ELSE overrides[k]]

upsert_prompt_override(overrides, profile_id, component_id, content, enabled) ==
    LET key == <<profile_id, component_id>>
        row == IF key \in DOMAIN overrides
               THEN [content |-> IF content # None THEN content
                                 ELSE overrides[key].content,
                     enabled |-> IF enabled # None THEN enabled
                                 ELSE overrides[key].enabled]
               ELSE [content |-> content, enabled |-> enabled]
    IN [k \in DOMAIN overrides \cup {key} |-> IF k = key THEN row ELSE overrides[k]]

reset_prompt_profile(overrides, profile_id) ==
    [k \in {x \in DOMAIN overrides : x[1] # profile_id} |-> overrides[k]]

---------------------------------------------------------------------------
(* The prompt composer. *)

\* what a call hands back: the value it returned or the exception it raised
Returned(value) == [raised |-> FALSE, value |-> value]

Raised(exc) == [raised |-> TRUE, exc |-> exc]

\* PromptComponent is a dataclass whose field file_path has no default;
\* main._effective_prompt_components builds the merged component without it
MissingFilePath ==
    [cls |-> "TypeError",
     mro |-> <<"TypeError", "Exception", "BaseException", "object">>,
     msg |-> <<"PromptComponent.__init__() missing 1 required positional argument: 'file_path'">>,
     status_code |-> ""]

\* main._effective_prompt_components, given the table with the default
\* profile ensured: a default component without an override of the active
\* profile is kept; the first one with an override row (whatever the row
\* holds) is rebuilt through the constructor, which raises
effective_prompt_components(rows, overrides) ==
    LET profile == ActiveRow(rows)
        ov == get_prompt_overrides(overrides, profile.id)
    IN IF \E i \in 1..Len(DefaultComponents) : DefaultComponents[i].id \in DOMAIN ov
       THEN Raised(MissingFilePath)
       ELSE Returned([i \in 1..Len(DefaultComponents) |-> DefaultComponents[i]])

\* sorted(components, key=order): a stable insertion sort
RECURSIVE InsertByOrder(_, _)
InsertByOrder(sorted, c) ==
    IF sorted = <<>> THEN <<c>>
    ELSE IF sorted[Len(sorted)].order <= c.order THEN Append(sorted, c)
    ELSE Append(InsertByOrder(SubSeq(sorted, 1, Len(sorted) - 1), c), sorted[Len(sorted)])

RECURSIVE SortByOrder(_)
SortByOrder(components) ==
    IF components = <<>> THEN <<>>
    ELSE InsertByOrder(SortByOrder(SubSeq(components, 1, Len(components) - 1)),
                       components[Len(components)])

RECURSIVE JoinParts(_)
JoinParts(parts) ==
    IF Len(parts) = 1 THEN parts[1]
    ELSE Concat(Concat(parts[1], Str("\n", 2)), JoinParts(Tail(parts)))

\* the fixed fallback sentence, 37 characters
FallbackPrompt == Str("f", 37)

IsComposed(c) == c.enabled /\ Strip(c.content) # <<>>

\* variant: the components are taken in list order, unsorted
compose_system_prompt_Unsorted(components) ==
    LET kept == SelectSeq(components, IsComposed)
        enabled == [i \in 1..Len(kept) |-> Strip(kept[i].content)]
    IN IF enabled = <<>> THEN FallbackPrompt ELSE JoinParts(enabled)

compose_system_prompt(components) ==
    LET sorted == SortByOrder(components)
        kept == SelectSeq(sorted, IsComposed)
        enabled == [i \in 1..Len(kept) |-> Strip(kept[i].content)]
    IN IF enabled = <<>> THEN FallbackPrompt ELSE JoinParts(enabled)

\* a caller composes the prompt of the list it holds
compose_prompt ==
    /\ response' = [op |-> "compose_system_prompt",
                    system_prompt |-> compose_system_prompt(prompt_components)]
    /\ UNCHANGED <<storeVars, warmupVars, jobVars, chatVars, pruning_threshold, ollama_context_window,
                   last_override, prompt_components, arguments, ops>>

---------------------------------------------------------------------------
(* storage.ChatStore and main: the context settings. *)

\* variant: a stored row is returned as it is, blank instructions included
ensure_context_settings_KeepBlank(row, max_context_tokens, max_response_tokens, compact_trigger_pct) ==
    IF row = None
    THEN [max_context_tokens |-> max_context_tokens,
          max_response_tokens |-> max_response_tokens,
          compact_trigger_pct |-> compact_trigger_pct,
          compact_instructions |-> default_compaction_instructions]
    ELSE row[1]

\* ensure_context_settings: the row after the call, which is also the
\* value it returns
ensure_context_settings(row, max_context_tokens, max_response_tokens, compact_trigger_pct) ==
    IF row = None
    THEN [max_context_tokens |-> max_context_tokens,
          max_response_tokens |-> max_response_tokens,
          compact_trigger_pct |-> compact_trigger_pct,
          compact_instructions |-> default_compaction_instructions]
    ELSE IF Strip(row[1].compact_instructions) = <<>>
         THEN [row[1] EXCEPT !.compact_instructions = default_compaction_instructions]
         ELSE row[1]

\* ChatStore.update_context_settings: None keeps the current value
store_update_context_settings(row, max_context_tokens, max_response_tokens, compact_trigger_pct, compact_instructions) ==
    LET current == ensure_context_settings(row, 4096, 512, 90)
        written ==
            [max_context_tokens |-> OrElse(max_context_tokens, current.max_context_tokens),
             max_response_tokens |-> OrElse(max_response_tokens, current.max_response_tokens),
             compact_trigger_pct |-> OrElse(compact_trigger_pct, current.compact_trigger_pct),
             compact_instructions |-> OrElse(compact_instructions, current.compact_instructions)]
    IN ensure_context_settings(Some(written), 4096, 512, 90)

\* the comparison of main._get_context_settings that triggers the re-sync
SettingsDrifted(current) ==
    \/ current.max_context_tokens # ollama_context_window
    \/ current.max_response_tokens # ollama_max_response_tokens

\* variant: the row is returned as ensure_context_settings found it
get_context_settings_NoResync(row) ==
    ensure_context_settings(row, ollama_context_window,
        ollama_max_response_tokens, default_compact_trigger)

\* main._get_context_settings: the row after the call, which it returns
get_context_settings(row) ==
    LET current == ensure_context_settings(row, ollama_context_window,
                       ollama_max_response_tokens, default_compact_trigger)
    IN IF SettingsDrifted(current)
       THEN store_update_context_settings(Some(current), Some(ollama_context_window),
                Some(ollama_max_response_tokens), None, None)
       ELSE current

---------------------------------------------------------------------------
(* The baseline suite of main._execute_baseline. *)

\* main._baseline_total_calls()
baseline_total_calls == 34

\* len(range(20)): the turns of the multi-turn case
multi_turn_count == 20

multi_turn_targets == [i \in 1..multi_turn_count |-> 50 + (((i - 1) * 17) % 151)]

\* variant: the pressure cases run from the largest prompt down
system_prompt_targets_Descending == <<10000, 5000, 2000, 1000, 500, 200>>

system_prompt_targets == <<200, 500, 1000, 2000, 5000, 10000>>

\* user_tokens = 100 + ((idx * 37) % 201), idx counted from 0
pressure_user_tokens(i) == 100 + (((i - 1) * 37) % 201)

\* the arguments of a single-turn case; input_tokens is the target the
\* user payload is built for
SingleCase(category, id, label, input_tokens) ==
    [category |-> category, id |-> id, label |-> label, turns |-> 1,
     input_tokens |-> input_tokens, system_tokens |-> 0]

\* str(target) for the targets of the run
TargetText(target) ==
    CASE target = 200 -> "200" [] target = 500 -> "500" [] target = 1000 -> "1000"
      [] target = 2000 -> "2000" [] target = 5000 -> "5000" [] target = 10000 -> "10000"

\* the cases in the order _execute_baseline awaits them
BaselineCases ==
    << SingleCase("simple_qa", "qa_100", "Simple Q/A (100 user tokens)", 100),
       SingleCase("simple_qa", "qa_250", "Simple Q/A (250 user tokens)", 250),
       SingleCase("simple_qa", "qa_500", "Simple Q/A (500 user tokens)", 500),
       SingleCase("summarization", "sum_200", "Summarization (200 user tokens)", 200),
       SingleCase("summarization", "sum_500", "Summarization (500 user tokens)", 500),
       SingleCase("summarization", "sum_1000", "Summarization (1000 user tokens)", 1000),
       SingleCase("summarization", "sum_2000", "Summarization (2000 user tokens)", 2000),
       [category |-> "multi_turn", id |-> "mt_20x_50_200",
        label |-> "20-turn conversation (50-200 user tokens/turn)",
        turns |-> Len(multi_turn_targets), input_tokens |-> 0, system_tokens |-> 0],
       SingleCase("structured_extraction", "extract_400",
                  "Structured Extraction (400 user tokens)", 400) >>
    \o [i \in 1..Len(system_prompt_targets) |->
          [category |-> "system_prompt_pressure",
           id |-> "sys_" \o TargetText(system_prompt_targets[i]),
           label |-> "System Prompt Pressure (" \o TargetText(system_prompt_targets[i])
                        \o " system tokens)",
           turns |-> 1, input_tokens |-> pressure_user_tokens(i),
           system_tokens |-> system_prompt_targets[i]]]

\* categories in the order the result lists them
CategoryOrder ==
    <<"simple_qa", "summarization", "multi_turn", "structured_extraction",
      "system_prompt_pressure">>

\* the model calls of a run, in issue order: call n belongs to case
\* CallPlan[n].case and is its turn CallPlan[n].turn
RECURSIVE PlanFrom(_)
PlanFrom(c) ==
    IF c > Len(BaselineCases) THEN <<>>
    ELSE [t \in 1..BaselineCases[c].turns |-> [case |-> c, turn |-> t]] \o PlanFrom(c + 1)

CallPlan == PlanFrom(1)

LastCall == Len(CallPlan)

\* the step text on_progress receives: the case label, and the turn for
\* the multi-turn case (turn 0: a single-turn label)
StepOf(n) ==
    LET c == BaselineCases[CallPlan[n].case]
    IN [label |-> c.label,
        turn |-> IF c.category = "multi_turn" THEN CallPlan[n].turn ELSE 0]

PlainStep(text) == [label |-> text, turn |-> 0]

\* an event-log message: a prefix and the step it names
EventMsg(prefix, step) == [prefix |-> prefix, step |-> step]

\* the ring size of _append_baseline_event
max_events == 100

\* variant: a full log keeps its first entry and evicts the second
append_baseline_event_EvictsSecond(job, message) ==
    LET events == Append(job.events, message)
    IN [job EXCEPT !.events =
          IF Len(events) > max_events
          THEN <<events[1]>> \o SubSeq(events, Len(events) - max_events + 2, Len(events))
          ELSE events]

\* main._append_baseline_event: the job after the call
append_baseline_event(job, message) ==
    LET events == Append(job.events, message)
    IN [job EXCEPT !.events =
          IF Len(events) > max_events
          THEN SubSeq(events, Len(events) - max_events + 1, Len(events))
          ELSE events]

\* the n-th message of a long run of progress reports on one job
ProgressMessage(n) ==
    EventMsg(IF n % 2 = 1 THEN "Running: " ELSE "Completed: ",
             [label |-> "step", tokens |-> 0, turn |-> n])

\* how many progress reports the job's log has seen: the number of its last one
ProgressCount(job) == job.events[Len(job.events)].step.turn

\* one more _append_baseline_event(job_id, message) on job j
AppendEvent(j) ==
    /\ baseline_jobs' = [baseline_jobs EXCEPT ![j] =
           append_baseline_event(@, ProgressMessage(ProgressCount(@) + 1))]
    /\ UNCHANGED <<storeVars, warmupVars, chatVars, tasks, response, pruning_threshold, ollama_context_window, last_override, prompt_components, arguments, ops>>

\* variant: the announcement of a call is counted like its completion
baseline_progress_CountsRunning(job, step, completed_inc) ==
    append_baseline_event(
        [job EXCEPT !.current_step = step,
                    !.completed_calls = Min(job.total_calls, job.completed_calls + 1)],
        EventMsg(IF completed_inc > 0 THEN "Completed: " ELSE "Running: ", step))

\* main._baseline_progress: the job after the call
baseline_progress(job, step, completed_inc) ==
    LET j1 == [job EXCEPT !.current_step = step]
    IN IF completed_inc > 0
       THEN append_baseline_event(
                [j1 EXCEPT !.completed_calls =
                    Min(job.total_calls, job.completed_calls + completed_inc)],
                EventMsg("Completed: ", step))
       ELSE append_baseline_event(j1, EventMsg("Running: ", step))

\* the entry start_baseline and run_baseline put in the table, after the
\* mode event is appended
NewJob(first_event, enforce) ==
    append_baseline_event(
        [status |-> "running",
         total_calls |-> baseline_total_calls,
         completed_calls |-> 0,
         current_step |-> PlainStep("Initializing"),
         events |-> <<EventMsg(first_event, PlainStep(""))>>,
         error |-> None,
         result |-> None,
         enforce_max_response_tokens |-> enforce],
        EventMsg(IF enforce THEN "Mode: enforcing max response tokens"
                 ELSE "Mode: no max response token cap", PlainStep("")))

\* len(text) after the loop of _build_user_payload, which adds fragments
\* of fragment_chars characters while the estimate is below the target
RECURSIVE payload_chars(_, _, _)
payload_chars(chars, fragment_chars, target_tokens) ==
    IF Max(1, CeilDiv(chars, 4)) < target_tokens
    THEN payload_chars(chars + fragment_chars, fragment_chars, target_tokens)
    ELSE chars

\* _estimate_tokens_for_text(user_payload) of a payload built for
\* target_tokens from a seed of seed_chars characters; the fragment is
\* the seed and 111 fixed characters
user_payload_tokens(target_tokens, seed_chars) ==
    Max(1, CeilDiv(payload_chars(0, seed_chars + 111, target_tokens), 4))

\* len(str(n)) of a turn number
DigitsOf(n) == IF n < 10 THEN 1 ELSE 2

\* input_total of _run_multi_turn_case after the first n turns
RECURSIVE input_total(_, _)
input_total(label, n) ==
    IF n = 0 THEN 0
    ELSE input_total(label, n - 1)
         + user_payload_tokens(multi_turn_targets[n],
                               Len(label) + Len(" turn ") + DigitsOf(n))

\* input_tokens_est of a finished case
input_tokens_est(c) ==
    LET case == BaselineCases[c]
    IN IF case.category = "multi_turn" THEN input_total(case.label, case.turns)
       ELSE IF case.category = "system_prompt_pressure"
       THEN user_payload_tokens(case.input_tokens, Len(case.label) + Len(" user input"))
       ELSE user_payload_tokens(case.input_tokens, Len(case.label) + Len(" input"))

\* variant: every case is recorded with one call
CaseResult_OneCall(c, per_turn) ==
    [id |-> BaselineCases[c].id, category |-> BaselineCases[c].category,
     label |-> BaselineCases[c].label, input_tokens_est |-> input_tokens_est(c),
     calls |-> 1, per_turn_latency_ms |-> per_turn,
     per_turn_prompt_tokens |-> per_turn, per_turn_completion_tokens |-> per_turn]

\* a finished case as BaselineCaseResult records it
CaseResult(c, per_turn) ==
    [id |-> BaselineCases[c].id, category |-> BaselineCases[c].category,
     label |-> BaselineCases[c].label, input_tokens_est |-> input_tokens_est(c),
     calls |-> BaselineCases[c].turns, per_turn_latency_ms |-> per_turn,
     per_turn_prompt_tokens |-> per_turn, per_turn_completion_tokens |-> per_turn]

IsOfCategory(case, category) == case.category = category

RECURSIVE SumCalls(_)
SumCalls(cases) == IF cases = <<>> THEN 0 ELSE Head(cases).calls + SumCalls(Tail(cases))

\* the BaselineRunResponse built at the end of _execute_baseline
BaselineRunResponse(cases) ==
    LET categories ==
            [k \in 1..Len(CategoryOrder) |->
                [id |-> CategoryOrder[k],
                 cases |-> SelectSeq(cases, LAMBDA c : IsOfCategory(c, CategoryOrder[k]))]]
    IN [total_calls |-> SumCalls(cases), categories |-> categories]

\* An exception: its class, the classes of its __mro__, the pieces of str(exc) (a piece is one
\* whitespace character or a text that neither starts nor ends with
\* one), and the status code of the response for HTTPStatusError.
\* str(exc), the pieces joined
RECURSIVE StrOf(_)
StrOf(pieces) == IF pieces = <<>> THEN "" ELSE Head(pieces) \o StrOf(Tail(pieces))

\* str.strip() on the pieces of a text
RECURSIVE LStripPieces(_)
LStripPieces(pieces) ==
    IF pieces # <<>> /\ Head(pieces) \in Whitespace THEN LStripPieces(Tail(pieces))
    ELSE pieces

RECURSIVE RStripPieces(_)
RStripPieces(pieces) ==
    IF pieces # <<>> /\ pieces[Len(pieces)] \in Whitespace
    THEN RStripPieces(SubSeq(pieces, 1, Len(pieces) - 1))
    ELSE pieces

StripPieces(pieces) == RStripPieces(LStripPieces(pieces))

\* variant: the message alone, without the class name
ErrorText_MessageOnly(exc) == StrOf(StripPieces(exc.msg))

\* the except clause of _run_baseline_background: msg = str(exc).strip(),
\* then the class name, followed by the message when there is one
ErrorText(exc) ==
    LET msg == StrOf(StripPieces(exc.msg))
    IN IF msg # "" THEN exc.cls \o ": " \o msg ELSE exc.cls

\* isinstance(exc, cls): cls is one of the classes of type(exc).__mro__
IsInstance(exc, cls) == \E i \in 1..Len(exc.mro) : exc.mro[i] = cls

\* the failures llm_client.chat can raise: the request times out or
\* cannot connect, raise_for_status() on a 4xx or a 5xx answer, resp.json()
\* on a body that is not JSON, a body without message.content, and a
\* client that raises a subclass of RuntimeError
Exceptions ==
    { [cls |-> "ReadTimeout",
       mro |-> <<"ReadTimeout", "TimeoutException", "TransportError", "RequestError",
                 "HTTPError", "Exception", "BaseException", "object">>,
       msg |-> <<>>, status_code |-> ""],
      [cls |-> "ConnectError",
       mro |-> <<"ConnectError", "NetworkError", "TransportError", "RequestError",
                 "HTTPError", "Exception", "BaseException", "object">>,
       msg |-> <<"All connection attempts failed">>, status_code |-> ""],
      [cls |-> "HTTPStatusError",
       mro |-> <<"HTTPStatusError", "HTTPError", "Exception", "BaseException", "object">>,
       msg |-> <<"Server error '500 Internal Server Error' for url 'http://host.docker.internal:11434/api/chat'",
                 "\n",
                 "For more information check: https://developer.mozilla.org/en-US/docs/Web/HTTP/Status/500">>,
       status_code |-> "500"],
      [cls |-> "HTTPStatusError",
       mro |-> <<"HTTPStatusError", "HTTPError", "Exception", "BaseException", "object">>,
       msg |-> <<"Client error '404 Not Found' for url 'http://host.docker.internal:11434/api/chat'",
                 "\n",
                 "For more information check: https://developer.mozilla.org/en-US/docs/Web/HTTP/Status/404">>,
       status_code |-> "404"],
      [cls |-> "JSONDecodeError",
       mro |-> <<"JSONDecodeError", "ValueError", "Exception", "BaseException", "object">>,
       msg |-> <<"Expecting value: line 1 column 1 (char 0)">>, status_code |-> ""],
      [cls |-> "RuntimeError",
       mro |-> <<"RuntimeError", "Exception", "BaseException", "object">>,
       msg |-> <<"Invalid Ollama response format">>, status_code |-> ""],
      [cls |-> "NotImplementedError",
       mro |-> <<"NotImplementedError", "RuntimeError", "Exception", "BaseException",
                 "object">>,
       msg |-> <<>>, status_code |-> ""] }

\* except httpx.HTTPError: the class and every class derived from it
IsHTTPError(exc) == IsInstance(exc, "HTTPError")

\* the exceptions the except clauses of llm_warmup and chat catch:
\* httpx.HTTPError, RuntimeError and their subclasses
IsHandled(exc) == IsHTTPError(exc) \/ IsInstance(exc, "RuntimeError")

---------------------------------------------------------------------------
(* The job table: start_baseline, run_baseline and the task of each job. *)

\* variant: the job dicts are one shared object
WriteJob_Shared(jobs, job_id, job) == [k \in 1..Len(jobs) |-> job]

\* the writes through job = _baseline_jobs[job_id]: the dict of that id
\* is the one that changes
WriteJob(jobs, job_id, job) == [jobs EXCEPT ![job_id] = job]

\* a message of a case runner: its role, and which text of which turn
CaseMessage(role, text, turn) == [role |-> role, content |-> <<text, turn>>]

\* the list a case runner starts with, up to its first model call: the
\* effective prompt, the instruction of the case (for the pressure
\* cases the synthetic system payload), the first user payload
FirstMessages(n) ==
    << CaseMessage("system", "effective_prompt", 0),
       CaseMessage("system",
                   IF BaselineCases[CallPlan[n].case].category = "system_prompt_pressure"
                   THEN "system_pressure" ELSE "task_instruction", 0),
       CaseMessage("user", "user_payload", 1) >>

\* messages.append(ChatMessageIn(role="assistant", ...)) after turn i
Replied(messages, i) == Append(messages, CaseMessage("assistant", "completion", i))

\* variant: the next turn is sent with the two system messages alone
NextTurn_Compacted(messages, i) ==
    <<messages[1], messages[2], CaseMessage("user", "user_payload", i)>>

\* messages.append(ChatMessageIn(role="user", ...)) of turn i
NextTurn(messages, i) == Append(messages, CaseMessage("user", "user_payload", i))

\* the list the next model call is given, call n having returned
MessagesAfter(messages, n) ==
    IF CallPlan[n + 1].case = CallPlan[n].case
    THEN NextTurn(Replied(messages, CallPlan[n].turn), CallPlan[n + 1].turn)
    ELSE FirstMessages(n + 1)

\* variant: the coroutine is entered at once, its first call issued
NewTask_Started(kind) ==
    [kind |-> kind, pc |-> "awaiting", call |-> 1, cases |-> <<>>,
     per_turn |-> <<>>, messages |-> <<>>, max_tokens |-> None]

NewTask(kind) ==
    [kind |-> kind, pc |-> "created", call |-> 0, cases |-> <<>>,
     per_turn |-> <<>>, messages |-> <<>>, max_tokens |-> None]

\* variant: the status is set and the result is left unset
CompletedJob_NoResult(job, kind, result) == [job EXCEPT !.status = "completed"]

\* the job once its result is attached: _run_baseline_background adds the
\* step and the event, run_baseline does not
CompletedJob(job, kind, result) ==
    LET done == [job EXCEPT !.status = "completed", !.result = Some(result)]
    IN IF kind = "background"
       THEN append_baseline_event([done EXCEPT !.current_step = PlainStep("Completed")],
                                  EventMsg("Baseline run completed", PlainStep("")))
       ELSE done

\* variant: the failure is logged but the status is left as it was
FailedJob_StaysRunning(job, exc) ==
    append_baseline_event(
        [job EXCEPT !.error = Some(ErrorText(exc))],
        EventMsg("Baseline failed: ", PlainStep(ErrorText(exc))))

\* the job after the except clause of _run_baseline_background
FailedJob(job, exc) ==
    append_baseline_event(
        [job EXCEPT !.status = "failed", !.error = Some(ErrorText(exc))],
        EventMsg("Baseline failed: ", PlainStep(ErrorText(exc))))

\* variant: the failure is recorded and the run goes on with the call
FailedTask_Continues(task) == task

\* the coroutine once the except clause has run: it ends, no call follows
FailedTask(task) == [task EXCEPT !.pc = "done"]

\* the first stretch of _execute_baseline: the prompt is composed, the
\* settings are read, call 1 is announced and issued. When the
\* composition raises, nothing of that happens: the background coroutine
\* records the failure and ends, the direct request ends with the
\* exception and leaves its job as it was registered
BeginExecute(j, jobs, tsks) ==
    LET rows == ensure_default_prompt_profile(prompt_profiles)
        effective == effective_prompt_components(rows, prompt_overrides)
        settings == get_context_settings(context_settings)
        enforce == jobs[j].enforce_max_response_tokens
    IN /\ prompt_profiles' = rows
       /\ IF ~effective.raised
          THEN /\ context_settings' = Some(settings)
               /\ baseline_jobs' = WriteJob(jobs, j,
                                            baseline_progress(jobs[j], StepOf(1), 0))
               /\ tasks' = [tsks EXCEPT ![j] =
                     [@ EXCEPT !.pc = "awaiting", !.call = 1,
                               !.messages = FirstMessages(1),
                               !.max_tokens = IF enforce
                                              THEN Some(settings.max_response_tokens)
                                              ELSE None]]
               /\ UNCHANGED response
          ELSE IF tsks[j].kind = "background"
          THEN /\ baseline_jobs' = WriteJob(jobs, j, FailedJob(jobs[j], effective.exc))
               /\ tasks' = [tsks EXCEPT ![j] = FailedTask(@)]
               /\ UNCHANGED <<context_settings, response>>
          ELSE /\ baseline_jobs' = jobs
               /\ tasks' = [tsks EXCEPT ![j].pc = "raised"]
               /\ response' = [op |-> "run_baseline", job_id |-> j, status |-> 500]
               /\ UNCHANGED context_settings
       /\ UNCHANGED prompt_overrides

\* POST /api/baseline/start
start_baseline(enforce) ==
    /\ baseline_jobs' = Append(baseline_jobs, NewJob("Baseline run started", enforce))
    /\ tasks' = Append(tasks, NewTask("background"))
    /\ response' = [op |-> "start_baseline", job_id |-> Len(baseline_jobs) + 1,
                    status |-> "running"]
    /\ UNCHANGED <<storeVars, warmupVars, chatVars, pruning_threshold, ollama_context_window, last_override, prompt_components, arguments, ops>>

\* _run_baseline_background, from its first scheduling to the first await
TaskBegin(j) ==
    /\ tasks[j].kind = "background"
    /\ tasks[j].pc = "created"
    /\ BeginExecute(j, baseline_jobs, tasks)
    /\ UNCHANGED <<warmupVars, chatVars, pruning_threshold, ollama_context_window, last_override, prompt_components, arguments, ops>>

\* POST /api/baseline/run, up to the first await
run_baseline(enforce) ==
    /\ BeginExecute(Len(baseline_jobs) + 1,
                    Append(baseline_jobs, NewJob("Baseline run started (direct)", enforce)),
                    Append(tasks, NewTask("direct")))
    /\ UNCHANGED <<warmupVars, chatVars, pruning_threshold, ollama_context_window, last_override, prompt_components, arguments, ops>>

\* a model call of job j returns: the call is counted, and the coroutine
\* runs on to the next model call or to the end of the run
CallReturns(j) ==
    LET t == tasks[j]
        n == t.call
        c == CallPlan[n].case
        multi == BaselineCases[c].category = "multi_turn"
        per_turn == IF multi THEN Append(t.per_turn, CallPlan[n].turn) ELSE <<>>
        case_done == CallPlan[n].turn = BaselineCases[c].turns
        cases == IF case_done THEN Append(t.cases, CaseResult(c, per_turn)) ELSE t.cases
        counted == baseline_progress(baseline_jobs[j], StepOf(n), 1)
    IN /\ t.pc = "awaiting"
       /\ IF n < LastCall
          THEN /\ baseline_jobs' = WriteJob(baseline_jobs, j,
                     baseline_progress(counted, StepOf(n + 1), 0))
               /\ tasks' = [tasks EXCEPT ![j] =
                     [@ EXCEPT !.call = n + 1, !.cases = cases,
                               !.messages = MessagesAfter(t.messages, n),
                               !.per_turn = IF case_done THEN <<>> ELSE per_turn]]
               /\ UNCHANGED response
          ELSE /\ baseline_jobs' = WriteJob(baseline_jobs, j,
                     CompletedJob(counted, t.kind, BaselineRunResponse(cases)))
               /\ tasks' = [tasks EXCEPT ![j] =
                     [@ EXCEPT !.pc = "done", !.cases = cases, !.per_turn = <<>>,
                               !.messages = <<>>]]
               /\ response' = IF t.kind = "direct"
                              THEN [op |-> "run_baseline", job_id |-> j, status |-> 200]
                              ELSE response
       /\ UNCHANGED <<storeVars, warmupVars, chatVars, pruning_threshold, ollama_context_window, last_override, prompt_components, arguments, ops>>

\* a model call of job j raises: the background task records the failure,
\* the direct run lets the exception leave the handler
CallRaises(j, exc) ==
    /\ tasks[j].pc = "awaiting"
    /\ IF tasks[j].kind = "background"
       THEN /\ baseline_jobs' = WriteJob(baseline_jobs, j, FailedJob(baseline_jobs[j], exc))
            /\ tasks' = [tasks EXCEPT ![j] = FailedTask(@)]
            /\ UNCHANGED response
       ELSE /\ tasks' = [tasks EXCEPT ![j].pc = "raised"]
            /\ response' = [op |-> "run_baseline", job_id |-> j, status |-> 500]
            /\ UNCHANGED baseline_jobs
    /\ UNCHANGED <<storeVars, warmupVars, chatVars, pruning_threshold, ollama_context_window, last_override, prompt_components, arguments, ops>>

\* main._make_baseline_status: the fields of the job the status answer carries
make_baseline_status(job_id) ==
    LET job == baseline_jobs[job_id]
    IN [op |-> "baseline_status", status |-> 200, job_id |-> job_id,
        job_status |-> job.status, total_calls |-> job.total_calls,
        completed_calls |-> job.completed_calls, current_step |-> job.current_step,
        events |-> job.events, error |-> job.error, result |-> job.result]

\* GET /api/baseline/status/{job_id}: 404 for an unknown id, else the job
baseline_status(job_id) ==
    /\ response' = IF job_id \in 1..Len(baseline_jobs)
                   THEN make_baseline_status(job_id)
                   ELSE [op |-> "baseline_status", status |-> 404, job_id |-> job_id]
    /\ UNCHANGED <<storeVars, warmupVars, jobVars, chatVars, pruning_threshold, ollama_context_window, last_override, prompt_components, arguments, ops>>

\* the jobs whose model call is in flight
JobsInFlight == {j \in 1..Len(tasks) : tasks[j].pc = "awaiting"}

---------------------------------------------------------------------------
(* The warm-up gate: llm_warmup under _warmup_lock. *)

\* variant: the lock never makes an arriving request wait
LockFree_Always == TRUE

LockFree == warmup_lock.holder = 0 /\ warmup_lock.waiters = <<>>

\* the body of "async with _warmup_lock" up to its first suspension, for
\* request w that has just taken the lock
WarmupLocked(w, reqs, waiters) ==
    IF warmup_completed_at
    THEN /\ warmups' = [reqs EXCEPT ![w] = "done"]
         /\ warmup_lock' = [holder |-> 0, waiters |-> waiters]
         /\ response' = [op |-> "llm_warmup", request |-> w, status |-> 200,
                         text |-> "already_warmed"]
    ELSE /\ warmups' = [reqs EXCEPT ![w] = "calling"]
         /\ warmup_lock' = [holder |-> w, waiters |-> waiters]
         /\ UNCHANGED response

\* POST /api/llm/warmup arrives: it takes the lock or queues for it
llm_warmup ==
    LET w == Len(warmups) + 1
    IN /\ IF LockFree
          THEN WarmupLocked(w, Append(warmups, "arrived"), <<>>)
          ELSE /\ warmups' = Append(warmups, "waiting")
               /\ warmup_lock' = [warmup_lock EXCEPT !.waiters = Append(@, w)]
               /\ UNCHANGED response
       /\ UNCHANGED <<storeVars, jobVars, chatVars, warmup_completed_at, pruning_threshold, ollama_context_window, last_override, prompt_components, arguments, ops>>

\* the first waiter is woken after a release and takes the lock
WarmupAcquire(w) ==
    /\ warmup_lock.holder = 0
    /\ warmup_lock.waiters # <<>>
    /\ Head(warmup_lock.waiters) = w
    /\ WarmupLocked(w, warmups, Tail(warmup_lock.waiters))
    /\ UNCHANGED <<storeVars, jobVars, chatVars, warmup_completed_at, pruning_threshold, ollama_context_window, last_override, prompt_components, arguments, ops>>

\* the warm-up model call returns
WarmupCallReturns(w) ==
    /\ warmups[w] = "calling"
    /\ warmup_completed_at' = TRUE
    /\ warmups' = [warmups EXCEPT ![w] = "done"]
    /\ warmup_lock' = [warmup_lock EXCEPT !.holder = 0]
    /\ response' = [op |-> "llm_warmup", request |-> w, status |-> 200, text |-> "warmed"]
    /\ UNCHANGED <<storeVars, jobVars, chatVars, pruning_threshold, ollama_context_window, last_override, prompt_components, arguments, ops>>

\* variant: the failure is swallowed and the request answers as warmed
WarmupFailure_Swallowed(w, exc) ==
    [op |-> "llm_warmup", request |-> w, status |-> 200, text |-> "warmed"]

\* what llm_warmup answers when its model call raised: HTTPException(502)
\* with the detail of the except clause that matches; an exception no
\* clause catches reaches unhandled_exception_handler, which answers 500
\* with str(exc)
WarmupFailure(w, exc) ==
    [op |-> "llm_warmup", request |-> w,
     status |-> IF IsHandled(exc) THEN 502 ELSE 500,
     text |-> IF IsInstance(exc, "HTTPStatusError")
              THEN "Ollama warmup failed with status " \o exc.status_code
              ELSE IF IsHTTPError(exc) THEN "Failed to connect to Ollama for warmup"
              ELSE StrOf(exc.msg)]

\* the warm-up model call raises: the lock is released, the error answered
WarmupCallRaises(w, exc) ==
    /\ warmups[w] = "calling"
    /\ warmups' = [warmups EXCEPT ![w] = "done"]
    /\ warmup_lock' = [warmup_lock EXCEPT !.holder = 0]
    /\ response' = WarmupFailure(w, exc)
    /\ UNCHANGED <<storeVars, jobVars, chatVars, warmup_completed_at, pruning_threshold, ollama_context_window, last_override, prompt_components, arguments, ops>>

WarmupsInFlight == {w \in 1..Len(warmups) : warmups[w] = "calling"}

---------------------------------------------------------------------------
(* The store handlers of main: settings, profiles, components. *)

SettingsResponse(op, row) ==
    [op |-> op, status |-> 200, settings |-> row]

\* GET /api/prompts/context-settings
get_context_settings_handler ==
    LET current == get_context_settings(context_settings)
    IN /\ context_settings' = Some(current)
       /\ response' = SettingsResponse("get_context_settings", current)
       /\ ops' = ops + 1
       /\ UNCHANGED <<prompt_profiles, prompt_overrides, warmupVars, jobVars, chatVars,
                      pruning_threshold, ollama_context_window, last_override, prompt_components, arguments>>

\* variant: only the token fields are constrained
ValidUpdate_TokensOnly(payload) ==
    /\ payload.max_context_tokens # None =>
          (payload.max_context_tokens[1] >= 256 /\ payload.max_context_tokens[1] <= 262144)
    /\ payload.max_response_tokens # None =>
          (payload.max_response_tokens[1] >= 16 /\ payload.max_response_tokens[1] <= 262144)

\* the Field constraints of models.ContextSettingsUpdateRequest
ValidUpdate(payload) ==
    /\ payload.max_context_tokens # None =>
          (payload.max_context_tokens[1] >= 256 /\ payload.max_context_tokens[1] <= 262144)
    /\ payload.max_response_tokens # None =>
          (payload.max_response_tokens[1] >= 16 /\ payload.max_response_tokens[1] <= 262144)
    /\ payload.compact_trigger_pct # None =>
          (payload.compact_trigger_pct[1] >= 10 /\ payload.compact_trigger_pct[1] <= 100)

\* PATCH /api/prompts/context-settings
update_context_settings_handler(payload) ==
    /\ IF ValidUpdate(payload)
       THEN LET current == store_update_context_settings(context_settings,
                               Some(ollama_context_window), payload.max_response_tokens,
                               payload.compact_trigger_pct, payload.compact_instructions)
            IN /\ context_settings' = Some(current)
               /\ response' = SettingsResponse("update_context_settings", current)
       ELSE /\ response' = [op |-> "update_context_settings", status |-> 422]
            /\ UNCHANGED context_settings
    /\ ops' = ops + 1
    /\ UNCHANGED <<prompt_profiles, prompt_overrides, warmupVars, jobVars, chatVars,
                   pruning_threshold, ollama_context_window, last_override, prompt_components, arguments>>

\* the prompt a request composes from the stored overrides, when the
\* composition returns at all
composed_prompt(rows, overrides) ==
    LET effective == effective_prompt_components(rows, overrides)
    IN IF effective.raised THEN None
       ELSE Some(compose_system_prompt(effective.value))

\* GET /api/prompts/system
get_system_prompt ==
    LET rows == ensure_default_prompt_profile(prompt_profiles)
        effective == effective_prompt_components(rows, prompt_overrides)
    IN /\ prompt_profiles' = rows
       /\ response' = IF effective.raised
                      THEN [op |-> "get_system_prompt", status |-> 500]
                      ELSE [op |-> "get_system_prompt", status |-> 200,
                            prompt |-> compose_system_prompt(effective.value),
                            profile_id |-> ActiveRow(rows).id,
                            is_custom |-> get_prompt_overrides(prompt_overrides,
                                                               ActiveRow(rows).id) # <<>>]
       /\ ops' = ops + 1
       /\ UNCHANGED <<prompt_overrides, context_settings, warmupVars, jobVars, chatVars,
                      pruning_threshold, ollama_context_window, last_override, prompt_components, arguments>>

\* GET /api/prompts/components
get_prompt_components ==
    LET rows == ensure_default_prompt_profile(prompt_profiles)
        effective == effective_prompt_components(rows, prompt_overrides)
        overrides == get_prompt_overrides(prompt_overrides, ActiveRow(rows).id)
    IN /\ prompt_profiles' = rows
       /\ response' = IF effective.raised
                      THEN [op |-> "get_prompt_components", status |-> 500]
                      ELSE [op |-> "get_prompt_components", status |-> 200,
                            components |->
                               [i \in DOMAIN effective.value |->
                                   [id |-> effective.value[i].id,
                                    content |-> effective.value[i].content,
                                    order |-> effective.value[i].order,
                                    enabled |-> effective.value[i].enabled,
                                    is_custom |-> effective.value[i].id
                                                     \in DOMAIN overrides]]]
       /\ ops' = ops + 1
       /\ UNCHANGED <<prompt_overrides, context_settings, warmupVars, jobVars, chatVars,
                      pruning_threshold, ollama_context_window, last_override, prompt_components, arguments>>

\* GET /api/prompts/profiles
get_prompt_profiles ==
    LET rows == ensure_default_prompt_profile(prompt_profiles)
    IN /\ prompt_profiles' = rows
       /\ \E profiles \in list_prompt_profiles(rows) :
             response' = [op |-> "get_prompt_profiles", status |-> 200,
                          profiles |-> profiles]
       /\ ops' = ops + 1
       /\ UNCHANGED <<prompt_overrides, context_settings, warmupVars, jobVars, chatVars,
                      pruning_threshold, ollama_context_window, last_override, prompt_components, arguments>>

\* the Field constraints of models.PromptProfileCreateRequest: the name
\* has 1 to 64 characters, counted before it is stripped
ValidProfileName(name) == Len(name) >= 1 /\ Len(name) <= 64

\* POST /api/prompts/profiles: a request that fails validation is
\* answered 422 before the handler runs
create_prompt_profile_handler(name) ==
    LET rows == create_prompt_profile(prompt_profiles, name)
    IN /\ IF ValidProfileName(name)
          THEN /\ prompt_profiles' = rows
               /\ response' = [op |-> "create_prompt_profile", status |-> 200,
                               id |-> rows[Len(rows)].id,
                               name |-> rows[Len(rows)].name,
                               is_active |-> rows[Len(rows)].is_active,
                               is_default |-> rows[Len(rows)].is_default]
          ELSE /\ response' = [op |-> "create_prompt_profile", status |-> 422]
               /\ UNCHANGED prompt_profiles
       /\ ops' = ops + 1
       /\ UNCHANGED <<prompt_overrides, context_settings, warmupVars, jobVars, chatVars,
                      pruning_threshold, ollama_context_window, last_override, prompt_components, arguments>>

\* POST /api/prompts/profiles/{profile_id}/activate: the store activates,
\* then the handler answers with get_active_prompt_profile
activate_prompt_profile_handler(profile_id) ==
    /\ IF ProfileExists(prompt_profiles, profile_id)
       THEN LET rows == ensure_default_prompt_profile(
                            activate_prompt_profile(prompt_profiles, profile_id))
                active == ActiveRow(rows)
            IN /\ prompt_profiles' = rows
               /\ response' = [op |-> "activate_prompt_profile", status |-> 200,
                               requested |-> profile_id, id |-> active.id,
                               is_active |-> active.is_active,
                               is_default |-> active.is_default]
       ELSE /\ response' = [op |-> "activate_prompt_profile", status |-> 404,
                            requested |-> profile_id]
            /\ UNCHANGED prompt_profiles
    /\ ops' = ops + 1
    /\ UNCHANGED <<prompt_overrides, context_settings, warmupVars, jobVars, chatVars,
                   pruning_threshold, ollama_context_window, last_override, prompt_components, arguments>>

\* PATCH /api/prompts/components/{component_id}
update_prompt_component(component_id, payload) ==
    /\ IF component_id \in ComponentIds
       THEN LET rows == ensure_default_prompt_profile(prompt_profiles)
                overrides == upsert_prompt_override(prompt_overrides, ActiveRow(rows).id,
                                 component_id, payload.content, payload.enabled)
                effective == effective_prompt_components(rows, overrides)
            IN /\ prompt_profiles' = rows
               /\ prompt_overrides' = overrides
               /\ response' =
                     IF effective.raised
                     THEN [op |-> "update_prompt_component", status |-> 500]
                     ELSE [op |-> "update_prompt_component", status |-> 200,
                           component |-> CHOOSE c \in {effective.value[i] :
                                                        i \in DOMAIN effective.value} :
                                             c.id = component_id,
                           profile_id |-> ActiveRow(rows).id]
               /\ last_override' = Some(
                      [component_id |-> component_id, payload |-> payload,
                       profile_id |-> ActiveRow(rows).id,
                       overrides_before |->
                           DOMAIN get_prompt_overrides(prompt_overrides, ActiveRow(rows).id),
                       prompt_before |-> composed_prompt(rows, prompt_overrides)])
       ELSE /\ response' = [op |-> "update_prompt_component", status |-> 404]
            /\ UNCHANGED <<prompt_profiles, prompt_overrides, last_override>>
    /\ ops' = ops + 1
    /\ UNCHANGED <<context_settings, warmupVars, jobVars, chatVars, pruning_threshold, ollama_context_window,
                   prompt_components, arguments>>

\* POST /api/prompts/reset
reset_prompts ==
    LET rows == ensure_default_prompt_profile(prompt_profiles)
    IN /\ prompt_profiles' = rows
       /\ prompt_overrides' = reset_prompt_profile(prompt_overrides, ActiveRow(rows).id)
       /\ response' = [op |-> "reset_prompts", status |-> 200,
                       profile_id |-> ActiveRow(rows).id]
       /\ ops' = ops + 1
       /\ UNCHANGED <<context_settings, warmupVars, jobVars, chatVars, pruning_threshold, ollama_context_window, last_override, prompt_components, arguments>>

\* POST /api/admin/delete-all-data
delete_all_data(confirm) ==
    /\ IF confirm
       THEN /\ prompt_profiles' = <<>>
            /\ prompt_overrides' = <<>>
            /\ context_settings' = None
            /\ conversations' = [c \in 1..Len(conversations) |->
                                    [conversations[c] EXCEPT !.exists = FALSE,
                                                             !.messages = <<>>]]
            /\ performance_exchanges' = <<>>
            /\ warmup_completed_at' = FALSE
            /\ response' = [op |-> "delete_all_data", status |-> 200]
       ELSE /\ response' = [op |-> "delete_all_data", status |-> 400]
            /\ UNCHANGED <<storeVars, conversations, performance_exchanges,
                           warmup_completed_at>>
    /\ ops' = ops + 1
    /\ UNCHANGED <<warmup_lock, warmups, jobVars, chats, pruning_threshold, ollama_context_window, last_override, prompt_components, arguments>>

---------------------------------------------------------------------------
(* The chat turn: POST /api/chat. *)

\* s[:n]
RECURSIVE Take(_, _)
Take(s, n) ==
    IF n = 0 \/ s = <<>> THEN <<>>
    ELSE IF Head(s).n <= n THEN Concat(<<Head(s)>>, Take(Tail(s), n - Head(s).n))
    ELSE Str(Head(s).ch, n)

\* s.replace("\n", " ")
RECURSIVE ReplaceNewlines(_)
ReplaceNewlines(s) ==
    IF s = <<>> THEN <<>>
    ELSE Concat(Str(IF Head(s).ch = "\n" THEN " " ELSE Head(s).ch, Head(s).n),
                ReplaceNewlines(Tail(s)))

\* the title "New Conversation", 16 characters
NewConversationTitle == Str("n", 16)

\* the row ChatStore.create_conversation inserts: title or "New Conversation"
NewConversation(title) ==
    [exists |-> TRUE,
     title |-> IF title = None \/ title = Some(<<>>) THEN NewConversationTitle
               ELSE title[1],
     messages |-> <<>>]

ChatMessageIn(role, content) == [role |-> role, content |-> content]

\* ChatStore.maybe_set_title_from_message, called after the user message
\* is stored
maybe_set_title_from_message(conversation, user_message) ==
    IF Len(conversation.messages) > 1 \/ ~conversation.exists THEN conversation
    ELSE LET title == Take(ReplaceNewlines(Strip(user_message)), 48)
         IN [conversation EXCEPT !.title =
                IF title = <<>> THEN NewConversationTitle ELSE title]

IsHistoryRole(m) == m.role \in {"user", "assistant"}

\* variant: the pop takes the head of the list
RemoveAt_Head(seq, k) == Tail(seq)

RemoveAt(seq, k) == SubSeq(seq, 1, k - 1) \o SubSeq(seq, k + 1, Len(seq))

\* variant: the list is sent as it is, whatever its estimate
DropLoop_Skipped(llm_messages, max_context_tokens, dropped) ==
    [llm_messages |-> llm_messages, dropped |-> dropped]

\* the drop loop of chat: while more than two messages are left and the
\* estimate exceeds the window, llm_messages.pop(2)
RECURSIVE DropLoop(_, _, _)
DropLoop(llm_messages, max_context_tokens, dropped) ==
    IF Len(llm_messages) > 2
       /\ estimate_tokens_for_messages(llm_messages) > max_context_tokens
    THEN DropLoop(RemoveAt(llm_messages, 3), max_context_tokens, dropped + 1)
    ELSE [llm_messages |-> llm_messages, dropped |-> dropped]

\* floor(log2(a / b)) for positive integers a and b
RECURSIVE FloorLog2(_, _)
FloorLog2(a, b) ==
    IF a >= 2 * b THEN FloorLog2(a, 2 * b) + 1
    ELSE IF a < b THEN FloorLog2(2 * a, b) - 1
    ELSE 0

RECURSIVE Pow2(_)
Pow2(n) == IF n = 0 THEN 1 ELSE 2 * Pow2(n - 1)

\* 2^q modulo m
RECURSIVE Pow2Mod(_, _)
Pow2Mod(q, m) == IF q = 0 THEN 1 % m ELSE (2 * Pow2Mod(q - 1, m)) % m

\* the float that holds h hundredths (h > 0) is mantissa / 2^q with a
\* mantissa of 53 bits; q is its exponent
DoubleExponent(h) == 52 - FloorLog2(h, 100)

\* 100 * mantissa - h * 2^q: the sign and size of the error of that
\* float, in units of 1 / (100 * 2^q)
DoubleError(h) ==
    LET e == (100 - (((h % 100) * Pow2Mod(DoubleExponent(h), 100)) % 100)) % 100
    IN IF e > 50 THEN e - 100 ELSE e

\* the float product falls below the integer n = w * h / 100 when the
\* float of h hundredths is too small by more than half the gap between
\* n and the float below it
ProductFallsShort(w, h, n) ==
    LET e == DoubleError(h)
        L == FloorLog2(n, 1)
        ex == L - (52 - DoubleExponent(h)) - 1 - (IF n = Pow2(L) THEN 1 ELSE 0)
    IN /\ e < 0
       /\ IF ex >= 0 THEN w * (0 - e) > 100 * Pow2(ex)
          ELSE w * (0 - e) * Pow2(0 - ex) > 100

\* int(w * pct) for the float pct of h hundredths: int() truncates toward
\* zero, and a product that is an integer in exact arithmetic can come
\* out one unit in the last place below it
RECURSIVE IntOfProduct(_, _)
IntOfProduct(w, h) ==
    IF w = 0 \/ h = 0 THEN 0
    ELSE IF h < 0 THEN 0 - IntOfProduct(w, 0 - h)
    ELSE IF (w * h) % 100 # 0 THEN (w * h) \div 100
    ELSE IF ProductFallsShort(w, h, (w * h) \div 100) THEN ((w * h) \div 100) - 1
    ELSE (w * h) \div 100

\* int(max_context_tokens * compact_trigger_pct)
CompactThreshold(settings) ==
    IntOfProduct(settings.max_context_tokens, settings.compact_trigger_pct)

\* the condition under which chat inserts the instruction message
CompactionApplies(settings, llm_messages) ==
    /\ Strip(settings.compact_instructions) # <<>>
    /\ estimate_tokens_for_messages(llm_messages) >= CompactThreshold(settings)

\* variant: the instruction message is also appended after the history
Compact_InstructionTwice(effective_prompt, history_messages, settings) ==
    LET base == <<ChatMessageIn("system", effective_prompt)>> \o history_messages
        applied == CompactionApplies(settings, base)
        instruction == ChatMessageIn("system", Strip(settings.compact_instructions))
        withInstr == IF applied THEN <<base[1], instruction>> \o Tail(base) \o <<instruction>>
                     ELSE base
        looped == DropLoop(withInstr, settings.max_context_tokens, 0)
    IN [llm_messages |-> looped.llm_messages,
        compaction_applied |-> applied,
        dropped_history_messages |-> looped.dropped,
        est_prompt_tokens_before |-> estimate_tokens_for_messages(base),
        est_prompt_tokens_after |-> estimate_tokens_for_messages(looped.llm_messages),
        compact_threshold |-> CompactThreshold(settings)]

\* the message list chat sends: the composed prompt, the history, the
\* instruction message at position 1 when compaction applies, then the
\* drop loop
Compact(effective_prompt, history_messages, settings) ==
    LET base == <<ChatMessageIn("system", effective_prompt)>> \o history_messages
        applied == CompactionApplies(settings, base)
        withInstr ==
            IF applied
            THEN <<base[1], ChatMessageIn("system", Strip(settings.compact_instructions))>>
                 \o Tail(base)
            ELSE base
        looped == DropLoop(withInstr, settings.max_context_tokens, 0)
    IN [llm_messages |-> looped.llm_messages,
        compaction_applied |-> applied,
        dropped_history_messages |-> looped.dropped,
        est_prompt_tokens_before |-> estimate_tokens_for_messages(base),
        est_prompt_tokens_after |-> estimate_tokens_for_messages(looped.llm_messages),
        compact_threshold |-> CompactThreshold(settings)]

RECURSIVE CharsOfRole(_, _)
CharsOfRole(messages, role) ==
    IF messages = <<>> THEN 0
    ELSE (IF Head(messages).role = role THEN StrLen(Head(messages).content) ELSE 0)
         + CharsOfRole(Tail(messages), role)

\* Python round() of a / b for a >= 0, b > 0: half goes to the even side
RoundDiv(a, b) ==
    LET q == a \div b
        r == a % b
    IN IF 2 * r < b THEN q
       ELSE IF 2 * r > b THEN q + 1
       ELSE IF q % 2 = 0 THEN q ELSE q + 1

\* main._allocate_estimated_tokens
allocate_estimated_tokens(total, system_chars, user_chars, assistant_chars) ==
    LET total_chars == system_chars + user_chars + assistant_chars
    IN IF total = None THEN [system |-> None, user |-> None, assistant |-> None]
       ELSE IF total_chars <= 0 THEN [system |-> Some(0), user |-> Some(0),
                                      assistant |-> Some(0)]
       ELSE LET system_est == RoundDiv(total[1] * system_chars, total_chars)
                user_est == RoundDiv(total[1] * user_chars, total_chars)
            IN [system |-> Some(system_est), user |-> Some(user_est),
                assistant |-> Some(total[1] - system_est - user_est)]

\* main._should_refresh_conversation_summary
should_refresh_conversation_summary(exchange_count) ==
    exchange_count = 1 \/ (exchange_count > 0 /\ exchange_count % 10 = 0)

\* the messages users send and the completions the backend returns
UserMessages == {<<>>, Str("u", 40), Str("u", 600)}

Completions ==
    { [content |-> Str("r", 8), prompt_tokens |-> None],
      [content |-> Str("r", 500), prompt_tokens |-> Some(300)] }

\* the Field constraints of models.ChatRequest: the message has 1 to
\* 10000 characters
ValidChatMessage(message) == StrLen(message) >= 1 /\ StrLen(message) <= 10000

\* POST /api/chat up to the model call, or to the exception the prompt
\* composition raises after the user message is stored; a message that
\* fails validation is answered 422 before the handler runs;
\* conversation_id 0 is an absent id;
\* title_call records how the await of the title refresh ended
chat(conversation_id, message) ==
    IF ~ValidChatMessage(message)
    THEN /\ response' = [op |-> "chat", status |-> 422]
         /\ UNCHANGED <<storeVars, warmupVars, jobVars, chatVars, pruning_threshold, ollama_context_window, last_override, prompt_components, arguments, ops>>
    ELSE IF conversation_id # 0
       /\ ~(conversation_id <= Len(conversations) /\ conversations[conversation_id].exists)
    THEN /\ response' = [op |-> "chat", status |-> 404]
         /\ UNCHANGED <<storeVars, warmupVars, jobVars, chatVars, pruning_threshold, ollama_context_window, last_override, prompt_components, arguments, ops>>
    ELSE LET convs == IF conversation_id = 0
                      THEN Append(conversations, NewConversation(None)) ELSE conversations
             cid == IF conversation_id = 0 THEN Len(convs) ELSE conversation_id
             stored == [convs[cid] EXCEPT
                           !.messages = Append(@, ChatMessageIn("user", message))]
             titled == maybe_set_title_from_message(stored, message)
             rows == ensure_default_prompt_profile(prompt_profiles)
             effective == effective_prompt_components(rows, prompt_overrides)
             effective_prompt == compose_system_prompt(effective.value)
             settings == get_context_settings(context_settings)
             history_messages == SelectSeq(titled.messages, IsHistoryRole)
             sent == Compact(effective_prompt, history_messages, settings)
         IN /\ conversations' = [convs EXCEPT ![cid] = titled]
            /\ prompt_profiles' = rows
            /\ IF effective.raised
               THEN /\ response' = [op |-> "chat", status |-> 500,
                                    conversation_id |-> cid]
                    /\ UNCHANGED <<context_settings, chats>>
               ELSE /\ context_settings' = Some(settings)
                    /\ chats' = Append(chats,
                          [pc |-> "awaiting", conversation_id |-> cid, message |-> message,
                           history_messages |-> history_messages,
                           max_tokens |-> settings.max_response_tokens,
                           compaction |-> sent, assistant_message |-> None,
                           title_call |-> "none"])
                    /\ UNCHANGED response
            /\ UNCHANGED <<prompt_overrides, performance_exchanges, warmupVars, jobVars,
                           pruning_threshold, ollama_context_window, last_override, prompt_components, arguments, ops>>

\* POST /api/conversations
create_conversation(title) ==
    /\ conversations' = Append(conversations, NewConversation(title))
    /\ response' = [op |-> "create_conversation", status |-> 200,
                    conversation_id |-> Len(conversations) + 1,
                    title |-> NewConversation(title).title]
    /\ ops' = ops + 1
    /\ UNCHANGED <<storeVars, warmupVars, jobVars, performance_exchanges, chats,
                   pruning_threshold, ollama_context_window, last_override, prompt_components, arguments>>

\* DELETE /api/conversations/{conversation_id}: the conversation goes
\* with its messages and its performance exchanges
delete_conversation(conversation_id) ==
    /\ IF conversation_id \in 1..Len(conversations)
          /\ conversations[conversation_id].exists
       THEN /\ conversations' = [conversations EXCEPT
                                    ![conversation_id].exists = FALSE,
                                    ![conversation_id].messages = <<>>]
            /\ performance_exchanges' =
                  SelectSeq(performance_exchanges,
                            LAMBDA e : e.conversation_id # conversation_id)
            /\ response' = [op |-> "delete_conversation", status |-> 204,
                            conversation_id |-> conversation_id]
       ELSE /\ response' = [op |-> "delete_conversation", status |-> 404,
                            conversation_id |-> conversation_id]
            /\ UNCHANGED <<conversations, performance_exchanges>>
    /\ ops' = ops + 1
    /\ UNCHANGED <<storeVars, warmupVars, jobVars, chats, pruning_threshold, ollama_context_window,
                   last_override, prompt_components, arguments>>

\* what chat answers: the status and, with 200, the assistant message
ChatResponse(r, status, assistant_message) ==
    [op |-> "chat", status |-> status, request |-> r,
     conversation_id |-> chats[r].conversation_id,
     assistant_message |-> assistant_message]

\* the model call of chat request r returns: the reply and the exchange
\* are stored, then _refresh_conversation_summary runs to its model call
\* or to its end
ChatCallReturns(r, completion) ==
    LET c == chats[r]
        cid == c.conversation_id
        sent == c.compaction.llm_messages
        messages == Append(conversations[cid].messages,
                           ChatMessageIn("assistant", completion.content))
        system_chars == CharsOfRole(sent, "system")
        user_chars == CharsOfRole(sent, "user")
        assistant_chars == CharsOfRole(sent, "assistant")
        exchange == [conversation_id |-> cid,
                     prompt_tokens |-> completion.prompt_tokens,
                     system_chars |-> system_chars, user_chars |-> user_chars,
                     assistant_chars |-> assistant_chars,
                     tokens_est |-> allocate_estimated_tokens(completion.prompt_tokens,
                                        system_chars, user_chars, assistant_chars)]
        exchange_count == Len(SelectSeq(messages, LAMBDA m : m.role = "assistant"))
    IN /\ c.pc = "awaiting"
       /\ conversations' = [conversations EXCEPT ![cid].messages = messages]
       /\ performance_exchanges' = Append(performance_exchanges, exchange)
       /\ IF should_refresh_conversation_summary(exchange_count)
          THEN /\ chats' = [chats EXCEPT ![r].pc = "title",
                                         ![r].assistant_message = Some(completion.content)]
               /\ UNCHANGED response
          ELSE /\ chats' = [chats EXCEPT ![r].pc = "done",
                                         ![r].assistant_message = Some(completion.content)]
               /\ response' = ChatResponse(r, 200, Some(completion.content))
       /\ UNCHANGED <<storeVars, warmupVars, jobVars, pruning_threshold, ollama_context_window, last_override, prompt_components, arguments, ops>>

\* the failures the model call of a chat turn can raise
ChatExceptions == Exceptions

\* the except clauses of chat answer 502 for httpx errors and
\* RuntimeError; any other exception reaches the handler of last resort
ChatFailureStatus(exc) ==
    IF IsHandled(exc) THEN 502 ELSE 500

\* variant: the request stays at its model call, which is issued again
FailedChat_Retries(c) == c

\* the coroutine of a chat request once its model call has raised
FailedChat(c) == [c EXCEPT !.pc = "done"]

\* variant: the except clause deletes the message the turn had stored
StoredAfterFailure_RolledBack(conversation) ==
    [conversation EXCEPT !.messages = SubSeq(@, 1, Len(@) - 1)]

\* the conversation of a turn whose model call raised: the except
\* clauses raise HTTPException and write nothing to the store
StoredAfterFailure(conversation) == conversation

\* the model call of chat request r raises: the error is answered
ChatCallRaises(r, exc) ==
    /\ chats[r].pc = "awaiting"
    /\ chats' = [chats EXCEPT ![r] = FailedChat(chats[r])]
    /\ conversations' = [conversations EXCEPT
                            ![chats[r].conversation_id] = StoredAfterFailure(@)]
    /\ response' = ChatResponse(r, ChatFailureStatus(exc), None)
    /\ UNCHANGED <<storeVars, warmupVars, jobVars, performance_exchanges,
                   pruning_threshold, ollama_context_window, last_override, prompt_components, arguments, ops>>

\* the str of a character list
RECURSIVE FromChars(_)
FromChars(cs) ==
    IF cs = <<>> THEN <<>> ELSE Concat(Str(Head(cs), 1), FromChars(Tail(cs)))

\* a str cut where a tag can begin or end: the first and the last
\* character of every run stand alone (the neighbours of a character of
\* a tag differ from it, so no tag reaches inside a run)
RECURSIVE Pieces(_)
Pieces(s) ==
    IF s = <<>> THEN <<>>
    ELSE LET ch == Head(s).ch
             n == Head(s).n
         IN (IF n = 1 THEN <<[ch |-> ch, n |-> 1]>>
             ELSE IF n = 2 THEN <<[ch |-> ch, n |-> 1], [ch |-> ch, n |-> 1]>>
             ELSE <<[ch |-> ch, n |-> 1], [ch |-> ch, n |-> n - 2],
                    [ch |-> ch, n |-> 1]>>) \o Pieces(Tail(s))

\* the str of its pieces
RECURSIVE Joined(_)
Joined(ps) == IF ps = <<>> THEN <<>> ELSE Concat(<<Head(ps)>>, Joined(Tail(ps)))

\* re.IGNORECASE on the letters of "think": the capitals, and the
\* dotted capital I, the dotless i and the Kelvin sign, which the
\* Unicode case folding of re matches too
LowerCase(ch) ==
    CASE ch = "T" -> "t" [] ch = "H" -> "h" [] ch = "I" -> "i"
      [] ch = "N" -> "n" [] ch = "K" -> "k"
      [] ch = "U+0130" -> "i" [] ch = "U+0131" -> "i" [] ch = "U+212A" -> "k"
      [] OTHER -> ch

OpenThink == <<"<", "t", "h", "i", "n", "k", ">">>
CloseThink == <<"<", "/", "t", "h", "i", "n", "k", ">">>

\* the tag stands at piece i, in any letter case
MatchesAt(cs, i, tag) ==
    /\ i + Len(tag) - 1 <= Len(cs)
    /\ \A k \in 1..Len(tag) :
          cs[i + k - 1].n = 1 /\ LowerCase(cs[i + k - 1].ch) = tag[k]

\* re.sub(r"<think>[\s\S]*?</think>", "", text): from the left, every
\* opening tag that has a closing tag after it goes with everything up
\* to the nearest one
RECURSIVE RemoveThinkBlocks(_, _)
RemoveThinkBlocks(cs, i) ==
    IF i > Len(cs) THEN <<>>
    ELSE IF /\ MatchesAt(cs, i, OpenThink)
            /\ \E j \in (i + 7)..Len(cs) : MatchesAt(cs, j, CloseThink)
         THEN LET j == CHOOSE j \in (i + 7)..Len(cs) :
                          /\ MatchesAt(cs, j, CloseThink)
                          /\ \A k \in (i + 7)..(j - 1) : ~MatchesAt(cs, k, CloseThink)
              IN RemoveThinkBlocks(cs, j + 8)
         ELSE <<cs[i]>> \o RemoveThinkBlocks(cs, i + 1)

\* re.sub(r"</?think>", "", text): the tags that are left go
RECURSIVE RemoveThinkTags(_, _)
RemoveThinkTags(cs, i) ==
    IF i > Len(cs) THEN <<>>
    ELSE IF MatchesAt(cs, i, OpenThink) THEN RemoveThinkTags(cs, i + 7)
    ELSE IF MatchesAt(cs, i, CloseThink) THEN RemoveThinkTags(cs, i + 8)
    ELSE <<cs[i]>> \o RemoveThinkTags(cs, i + 1)

\* main._extract_visible_assistant_text
extract_visible_assistant_text(text) ==
    Strip(Joined(RemoveThinkTags(Pieces(Joined(RemoveThinkBlocks(Pieces(text), 1))), 1)))

\* the characters str.splitlines() breaks a line at
LineBreaks ==
    {"\n", "\r", "\f", "U+000B", "U+001C", "U+001D", "U+001E", "U+0085",
     "U+2028", "U+2029"}

\* text.splitlines()[0] of a text that is not empty
RECURSIVE FirstLine(_)
FirstLine(s) ==
    IF s = <<>> \/ Head(s).ch \in LineBreaks THEN <<>>
    ELSE Concat(<<Head(s)>>, FirstLine(Tail(s)))

\* the characters title.strip() is given after the first line is taken:
\* the space, the double quote, the single quote and the backquote
\* (U+0060)
QuoteChars == {" ", "\"", "'", "U+0060"}

RECURSIVE LStripQuotes(_)
LStripQuotes(s) ==
    IF s # <<>> /\ Head(s).ch \in QuoteChars THEN LStripQuotes(Tail(s)) ELSE s

RECURSIVE RStripQuotes(_)
RStripQuotes(s) ==
    IF s # <<>> /\ s[Len(s)].ch \in QuoteChars
    THEN RStripQuotes(SubSeq(s, 1, Len(s) - 1)) ELSE s

\* "".splitlines()[0]
EmptyLineList ==
    [cls |-> "IndexError",
     mro |-> <<"IndexError", "LookupError", "Exception", "BaseException", "object">>,
     msg |-> <<"list index out of range">>, status_code |-> ""]

\* the title _refresh_conversation_summary derives from the completion
\* and ChatStore.update_conversation_title stores, the empty str when
\* none is stored: think blocks and tags removed, the first line,
\* stripped of whitespace and quotes, cut to 96. A completion that is
\* not empty and has no visible text has no first line: IndexError
RefreshedTitle(content) ==
    LET visible == extract_visible_assistant_text(content)
        line == IF content = <<>> THEN <<>> ELSE Strip(FirstLine(visible))
        title == RStripQuotes(LStripQuotes(line))
        cut == IF StrLen(title) > 96 THEN RStrip(Take(title, 96)) ELSE title
    IN IF content # <<>> /\ visible = <<>> THEN Raised(EmptyLineList)
       ELSE Returned(Take(Strip(cut), 96))

\* the title call returns: a non-empty title is stored; the IndexError
\* is raised outside the try of the refresh and leaves chat, which is
\* answered 500 with the reply and the exchange already stored
TitleCallReturns(r, content) ==
    LET cid == chats[r].conversation_id
        title == RefreshedTitle(content)
    IN /\ chats[r].pc = "title"
       /\ conversations' =
             IF ~title.raised /\ title.value # <<>> /\ conversations[cid].exists
             THEN [conversations EXCEPT ![cid].title = title.value] ELSE conversations
       /\ chats' = [chats EXCEPT ![r].pc = "done", ![r].title_call = "returned"]
       /\ response' = IF title.raised THEN ChatResponse(r, 500, None)
                      ELSE ChatResponse(r, 200, chats[r].assistant_message)
       /\ UNCHANGED <<storeVars, warmupVars, jobVars, performance_exchanges,
                      pruning_threshold, ollama_context_window, last_override, prompt_components, arguments, ops>>

\* the completions of the title call: empty, a plain title, a think
\* block alone, and a think block before a title in quotes (a backquote
\* and double quotes) and a second line
TitleCompletions ==
    { <<>>,
      Str("t", 12),
      FromChars(OpenThink \o <<"x", "y">> \o CloseThink),
      FromChars(<<"<", "T", "h", "i", "n", "k", ">", "x">> \o CloseThink
                   \o <<"\n", "U+0060", "\"", "t", "t", "\"", "\n", "z">>) }

\* variant: the failure of the title call fails the chat turn
TitleFailure_Surfaced(r) == ChatResponse(r, 502, None)

\* what chat answers when the title call raised: "except Exception:
\* return" in the refresh, then the normal answer
TitleFailure(r) == ChatResponse(r, 200, chats[r].assistant_message)

\* the title call raises: the except clause returns, the title is kept
TitleCallRaises(r) ==
    /\ chats[r].pc = "title"
    /\ chats' = [chats EXCEPT ![r].pc = "done", ![r].title_call = "raised"]
    /\ response' = TitleFailure(r)
    /\ UNCHANGED <<storeVars, warmupVars, jobVars, conversations, performance_exchanges,
                   pruning_threshold, ollama_context_window, last_override, prompt_components, arguments, ops>>

\* the chat requests whose model call, main or title, is in flight
ChatsInFlight == {r \in 1..Len(chats) : chats[r].pc \in {"awaiting", "title"}}

---------------------------------------------------------------------------
(* The helpers of main applied to arguments of their own. *)

\* both estimators applied: to the message list and to the text
EstimateResponse(args) ==
    [op |-> "estimate_tokens",
     messages |-> estimate_tokens_for_messages(args.messages),
     text |-> estimate_tokens_for_text(args.text)]

\* a caller estimates the list and the text it holds
estimate_tokens ==
    /\ arguments # None
    /\ "messages" \in DOMAIN arguments[1]
    /\ response' = EstimateResponse(arguments[1])
    /\ UNCHANGED <<storeVars, warmupVars, jobVars, chatVars, pruning_threshold, ollama_context_window,
                   last_override, prompt_components, arguments, ops>>

\* a caller appends a message to its list and estimates the list and the
\* text of that message
estimate_tokens_grown(content) ==
    /\ arguments # None
    /\ "messages" \in DOMAIN arguments[1]
    /\ LET args == [messages |-> Append(arguments[1].messages,
                                         ChatMessageIn("user", content)),
                    text |-> content]
       IN /\ arguments' = Some(args)
          /\ response' = EstimateResponse(args)
    /\ UNCHANGED <<storeVars, warmupVars, jobVars, chatVars, pruning_threshold, ollama_context_window,
                   last_override, prompt_components, ops>>

\* the fragment of _build_user_payload: the seed and 111 fixed characters
user_fragment(seed) == Concat(seed, Str("k", 111))

\* the fragment of _build_system_payload: the seed and 134 fixed characters
system_fragment(seed) == Concat(seed, Str("p", 134))

\* variant: one more copy is added once the target is reached
RECURSIVE PayloadLoop_OneExtra(_, _, _)
PayloadLoop_OneExtra(text, fragment, target_tokens) ==
    IF estimate_tokens_for_text(text) < target_tokens
    THEN PayloadLoop_OneExtra(text \o fragment, fragment, target_tokens)
    ELSE text \o fragment

\* while _estimate_tokens_for_text(text) < target_tokens: text += fragment
RECURSIVE PayloadLoop(_, _, _)
PayloadLoop(text, fragment, target_tokens) ==
    IF estimate_tokens_for_text(text) < target_tokens
    THEN PayloadLoop(text \o fragment, fragment, target_tokens)
    ELSE text

build_user_payload(target_tokens, seed) ==
    PayloadLoop(<<>>, user_fragment(seed), target_tokens)

build_system_payload(target_tokens, seed) ==
    PayloadLoop(<<>>, system_fragment(seed), target_tokens)

\* a caller builds the payload its arguments ask for
build_payload ==
    /\ arguments # None
    /\ "target_tokens" \in DOMAIN arguments[1]
    /\ response' = [op |-> "build_payload",
                    text |-> IF arguments[1].kind = "user"
                             THEN build_user_payload(arguments[1].target_tokens,
                                                     arguments[1].seed)
                             ELSE build_system_payload(arguments[1].target_tokens,
                                                       arguments[1].seed)]
    /\ UNCHANGED <<storeVars, warmupVars, jobVars, chatVars, pruning_threshold, ollama_context_window,
                   last_override, prompt_components, arguments, ops>>

\* a caller allocates the prompt-token total it holds over the three
\* character counts
allocate_tokens ==
    /\ arguments # None
    /\ "total" \in DOMAIN arguments[1]
    /\ response' = [op |-> "allocate_estimated_tokens",
                    est |-> allocate_estimated_tokens(arguments[1].total,
                                arguments[1].system_chars, arguments[1].user_chars,
                                arguments[1].assistant_chars)]
    /\ UNCHANGED <<storeVars, warmupVars, jobVars, chatVars, pruning_threshold, ollama_context_window,
                   last_override, prompt_components, arguments, ops>>

---------------------------------------------------------------------------
(* Specifications. *)

NoResponse == [op |-> "none"]

InitProgram ==
    /\ prompt_profiles = <<>>
    /\ prompt_overrides = <<>>
    /\ context_settings = None
    /\ ops = 0
    /\ warmup_completed_at = FALSE
    /\ warmup_lock = [holder |-> 0, waiters |-> <<>>]
    /\ warmups = <<>>
    /\ baseline_jobs = <<>>
    /\ tasks = <<>>
    /\ conversations = <<>>
    /\ performance_exchanges = <<>>
    /\ chats = <<>>
    /\ response = NoResponse
    /\ last_override = None
    /\ prompt_components = DefaultComponents
    /\ arguments = None

\* agent.yaml sets no pruning_threshold
Init == InitProgram /\ pruning_threshold = None /\ ollama_context_window = smallest_window

\* the process started on a database in which an earlier request stored
\* an override of a default component for the default profile
InitOverridden ==
    /\ prompt_profiles = ensure_default_prompt_profile(<<>>)
    /\ prompt_overrides =
          upsert_prompt_override(<<>>, ActiveRow(ensure_default_prompt_profile(<<>>)).id,
                                 DefaultComponents[1].id, None, Some(FALSE))
    /\ context_settings = None
    /\ ops = 0
    /\ warmup_completed_at = FALSE
    /\ warmup_lock = [holder |-> 0, waiters |-> <<>>]
    /\ warmups = <<>>
    /\ baseline_jobs = <<>>
    /\ tasks = <<>>
    /\ conversations = <<>>
    /\ performance_exchanges = <<>>
    /\ chats = <<>>
    /\ response = NoResponse
    /\ last_override = None
    /\ prompt_components = DefaultComponents
    /\ arguments = None
    /\ pruning_threshold = None /\ ollama_context_window = smallest_window

\* the job table is exercised on both databases
InitJobs == Init \/ InitOverridden

\* the requests the handlers are given
SettingsPayloads ==
    { [max_context_tokens |-> None, max_response_tokens |-> m,
       compact_trigger_pct |-> p, compact_instructions |-> i] :
        m \in {None, Some(1024), Some(8)},
        p \in {None, Some(50)},
        i \in {None, Some(Str(" ", 3))} }
    \cup { [max_context_tokens |-> None, max_response_tokens |-> None,
            compact_trigger_pct |-> Some(150),
            compact_instructions |-> Some(Str("k", 20))] }

\* the same requests with a window of their own, and every field in and
\* out of its range
SettingsRequests ==
    [max_context_tokens : {None, Some(8192), Some(100)},
     max_response_tokens : {None, Some(1024), Some(8)},
     compact_trigger_pct : {None, Some(50), Some(5), Some(150)},
     compact_instructions : {None, Some(Str("k", 20))}]

\* the names POST /api/prompts/profiles is given: "zeta", " alpha" and
\* the empty name
ProfileNames == {<<122, 101, 116, 97>>, <<32, 97, 108, 112, 104, 97>>, <<>>}

ComponentPayloads ==
    { [content |-> c, enabled |-> e] :
        c \in {None, Some(Str("z", 9))}, e \in {None, Some(FALSE), Some(TRUE)} }

\* the tasks of the job table: their model calls return or raise
TaskStep ==
    \/ \E j \in 1..Len(tasks) : TaskBegin(j)
    \/ \E j \in 1..Len(tasks) : CallReturns(j)
    \/ \E j \in 1..Len(tasks), exc \in Exceptions : CallRaises(j, exc)

\* the job table: start(), the direct run, and the tasks
JobStep ==
    \/ \E enforce \in BOOLEAN : Len(baseline_jobs) < MaxJobs /\ start_baseline(enforce)
    \/ \E enforce \in BOOLEAN : Len(baseline_jobs) < MaxJobs /\ run_baseline(enforce)
    \/ TaskStep

WarmupStep ==
    \/ Len(warmups) < MaxWarmups /\ llm_warmup
    \/ \E w \in 1..Len(warmups) : WarmupAcquire(w)
    \/ \E w \in 1..Len(warmups) : WarmupCallReturns(w)
    \/ \E w \in 1..Len(warmups), exc \in Exceptions : WarmupCallRaises(w, exc)

ChatStep ==
    \/ \E c \in 0..(Len(conversations) + 1), m \in UserMessages :
          Len(chats) < MaxChats /\ chat(c, m)
    \/ \E r \in 1..Len(chats), completion \in Completions : ChatCallReturns(r, completion)
    \/ \E r \in 1..Len(chats), exc \in ChatExceptions : ChatCallRaises(r, exc)
    \/ \E r \in 1..Len(chats), content \in TitleCompletions : TitleCallReturns(r, content)
    \/ \E r \in 1..Len(chats) : TitleCallRaises(r)

SettingsStep ==
    \/ ops < MaxOps /\ get_context_settings_handler
    \/ \E payload \in SettingsPayloads :
          ops < MaxOps /\ update_context_settings_handler(payload)

ProfileStep ==
    \/ ops < MaxOps /\ get_system_prompt
    \/ ops < MaxOps /\ get_prompt_components
    \/ ops < MaxOps /\ get_prompt_profiles
    \/ \E name \in ProfileNames :
          ops < MaxOps /\ Len(prompt_profiles) < MaxProfiles
             /\ create_prompt_profile_handler(name)
    \/ \E id \in 1..(Len(prompt_profiles) + 1) :
          ops < MaxOps /\ activate_prompt_profile_handler(id)
    \/ \E c \in ComponentIds \cup {"unknown"}, payload \in ComponentPayloads :
          ops < MaxOps /\ update_prompt_component(c, payload)
    \/ ops < MaxOps /\ reset_prompts

AdminStep == \E confirm \in BOOLEAN : ops < MaxOps /\ delete_all_data(confirm)

\* the component lists a caller can hold: file contents and overrides
\* that are blank, plain or padded with whitespace, enabled or not, in
\* any order of the order keys
ComponentIdAt == <<"c1", "c2", "c3", "c4">>
ComponentCharAt == <<"a", "b", "c", "d">>

\* a content is blank, plain, or padded with whitespace
ContentOf(kind, ch) ==
    CASE kind = "blank" -> Str(" ", 3)
      [] kind = "plain" -> Str(ch, 5)
      [] kind = "padded" ->
            <<[ch |-> " ", n |-> 2], [ch |-> ch, n |-> 4], [ch |-> "\n", n |-> 1]>>

ComponentShapes ==
    [kind : {"blank", "plain", "padded"}, order : 0..2, enabled : BOOLEAN]

ComponentOf(i, shape) ==
    [id |-> ComponentIdAt[i], content |-> ContentOf(shape.kind, ComponentCharAt[i]),
     order |-> shape.order, enabled |-> shape.enabled]

\* the baseline job table alone
Next == JobStep

Spec == InitJobs /\ [][Next]_vars

\* the event loop runs every ready task, and every model call returns or
\* raises within the client's 90 s timeout
TaskRuns(j) == j \in 1..Len(tasks) /\ TaskBegin(j)

CallEnds(j) ==
    j \in 1..Len(tasks) /\ (CallReturns(j) \/ \E exc \in Exceptions : CallRaises(j, exc))

FairSpec ==
    /\ Spec
    /\ \A j \in 1..MaxJobs : WF_vars(TaskRuns(j))
    /\ \A j \in 1..MaxJobs : WF_vars(CallEnds(j))

\* the warm-up gate with data deletion
\* status polls of the jobs whose run is over, and of unknown ids
PollStep ==
    \E job_id \in 1..(MaxJobs + 1) :
        /\ job_id \in 1..Len(tasks) => tasks[job_id].pc \notin {"created", "awaiting"}
        /\ baseline_status(job_id)

NextPolled == JobStep \/ PollStep

SpecPolled == InitJobs /\ [][NextPolled]_vars

\* the jobs of start() polled at any moment of their run
NextStatus ==
    \/ \E enforce \in BOOLEAN : Len(baseline_jobs) < MaxJobs /\ start_baseline(enforce)
    \/ TaskStep
    \/ \E job_id \in 1..(MaxJobs + 1) : baseline_status(job_id)

SpecStatus == InitJobs /\ [][NextStatus]_vars

\* the event log of a job under a long run of appends
NextEvents ==
    \/ \E enforce \in BOOLEAN : Len(baseline_jobs) < MaxJobs /\ start_baseline(enforce)
    \/ \E enforce \in BOOLEAN : Len(baseline_jobs) < MaxJobs /\ run_baseline(enforce)
    \/ \E j \in 1..Len(baseline_jobs) :
          ProgressCount(baseline_jobs[j]) < MaxAppends /\ AppendEvent(j)

SpecEvents == Init /\ [][NextEvents]_vars

NextWarmup == WarmupStep \/ AdminStep

SpecWarmup == Init /\ [][NextWarmup]_vars

\* the prompt profiles, overrides and context settings behind the handlers
NextStore == SettingsStep \/ ProfileStep \/ AdminStep

SpecStore == Init /\ [][NextStore]_vars

\* the chat turn, with the configured trigger inside and outside (0, 1]
InitChat ==
    /\ InitProgram
    /\ pruning_threshold \in {None, Some(50), Some(150)}
    /\ ollama_context_window = smallest_window

NextChat == ChatStep

\* chat turns whose user message alone outgrows the smallest window
LongMessages == {Str("u", 40), Str("u", 1200)}

LongChatStep ==
    \/ \E c \in 0..(Len(conversations) + 1), m \in LongMessages :
          Len(chats) < MaxChats /\ chat(c, m)
    \/ \E r \in 1..Len(chats), completion \in Completions : ChatCallReturns(r, completion)
    \/ \E r \in 1..Len(chats), exc \in ChatExceptions : ChatCallRaises(r, exc)
    \/ \E r \in 1..Len(chats), content \in TitleCompletions : TitleCallReturns(r, content)
    \/ \E r \in 1..Len(chats) : TitleCallRaises(r)

NextLongChat == LongChatStep

SpecLongChat == InitChat /\ [][NextLongChat]_vars

\* chat turns under a window of 300 tokens and the trigger 0.57 of
\* agent.yaml: a first message that brings the estimate of the system
\* prompt and the history to 170, and a short one
ThresholdMessages == {Str("u", 40), Str("u", 646)}

InitThreshold ==
    /\ InitProgram
    /\ pruning_threshold \in {None, Some(57)}
    /\ ollama_context_window \in {smallest_window, 300}

ThresholdStep ==
    \/ \E c \in 0..(Len(conversations) + 1), m \in ThresholdMessages :
          Len(chats) < MaxChats /\ chat(c, m)
    \/ \E r \in 1..Len(chats), completion \in Completions : ChatCallReturns(r, completion)
    \/ \E r \in 1..Len(chats), exc \in ChatExceptions : ChatCallRaises(r, exc)
    \/ \E r \in 1..Len(chats), content \in TitleCompletions : TitleCallReturns(r, content)
    \/ \E r \in 1..Len(chats) : TitleCallRaises(r)

NextThreshold == ThresholdStep

SpecThreshold == InitThreshold /\ [][NextThreshold]_vars

\* the instructions of the context settings rewritten between chat
\* turns: empty, whitespace only, or a text of the operator's
InstructionRequests ==
    { [max_context_tokens |-> None, max_response_tokens |-> None,
       compact_trigger_pct |-> None, compact_instructions |-> Some(i)] :
        i \in {<<>>, Str(" ", 3), Str("k", 20)} }

\* a database whose instructions an operator has set before
CustomSettings ==
    [max_context_tokens |-> ollama_context_window,
     max_response_tokens |-> ollama_max_response_tokens,
     compact_trigger_pct |-> 90, compact_instructions |-> Str("o", 30)]

InitInstructions ==
    /\ ollama_context_window = smallest_window
    /\ prompt_profiles = <<>>
    /\ prompt_overrides = <<>>
    /\ context_settings = Some(CustomSettings)
    /\ ops = 0
    /\ warmup_completed_at = FALSE
    /\ warmup_lock = [holder |-> 0, waiters |-> <<>>]
    /\ warmups = <<>>
    /\ baseline_jobs = <<>>
    /\ tasks = <<>>
    /\ conversations = <<>>
    /\ performance_exchanges = <<>>
    /\ chats = <<>>
    /\ response = NoResponse
    /\ last_override = None
    /\ prompt_components = DefaultComponents
    /\ arguments = None
    /\ pruning_threshold = None

NextInstructions ==
    \/ ops < MaxRewrites /\ get_context_settings_handler
    \/ \E payload \in InstructionRequests :
          ops < MaxRewrites /\ update_context_settings_handler(payload)
    \/ \E c \in 0..(Len(conversations) + 1), m \in LongMessages :
          Len(chats) < MaxTurns /\ chat(c, m)
    \/ \E r \in 1..Len(chats), completion \in Completions : ChatCallReturns(r, completion)
    \/ \E r \in 1..Len(chats), exc \in ChatExceptions : ChatCallRaises(r, exc)
    \/ \E r \in 1..Len(chats), content \in TitleCompletions : TitleCallReturns(r, content)
    \/ \E r \in 1..Len(chats) : TitleCallRaises(r)

SpecInstructions == InitInstructions /\ [][NextInstructions]_vars

SpecChat == InitChat /\ [][NextChat]_vars

\* the titles POST /api/conversations is given
ConversationTitles == {None, Some(<<>>), Some(Str("t", 12))}

\* conversations created and deleted next to the chat turns
ConversationStep ==
    \/ \E title \in ConversationTitles :
          /\ ops < MaxConversationOps
          /\ Len(conversations) < MaxChats
          /\ create_conversation(title)
    \/ \E c \in 1..(Len(conversations) + 1) :
          ops < MaxConversationOps /\ delete_conversation(c)

NextConversations == ChatStep \/ ConversationStep

SpecConversations == Init /\ [][NextConversations]_vars

\* start() requests and direct runs whose model calls overlap
NextConcurrent ==
    \/ \E enforce \in BOOLEAN :
          Len(baseline_jobs) < MaxBackendJobs /\ start_baseline(enforce)
    \/ \E enforce \in BOOLEAN :
          Len(baseline_jobs) < MaxBackendJobs /\ run_baseline(enforce)
    \/ TaskStep

SpecConcurrent == Init /\ [][NextConcurrent]_vars

\* the settings row a run under the default window (4096) left in the
\* database, with instructions of the operator's own
StaleSettings ==
    [max_context_tokens |-> 4096, max_response_tokens |-> 512,
     compact_trigger_pct |-> 90, compact_instructions |-> Str("o", 30)]

\* the context settings alone: a fresh or an inherited database, the
\* configured trigger absent, inside or outside (0, 1]
InitSettings ==
    /\ prompt_profiles = <<>>
    /\ prompt_overrides = <<>>
    /\ context_settings \in {None, Some(StaleSettings)}
    /\ ops = 0
    /\ warmup_completed_at = FALSE
    /\ warmup_lock = [holder |-> 0, waiters |-> <<>>]
    /\ warmups = <<>>
    /\ baseline_jobs = <<>>
    /\ tasks = <<>>
    /\ conversations = <<>>
    /\ performance_exchanges = <<>>
    /\ chats = <<>>
    /\ response = NoResponse
    /\ last_override = None
    /\ prompt_components = DefaultComponents
    /\ arguments = None
    /\ pruning_threshold \in {None, Some(50), Some(150)}
    /\ ollama_context_window = smallest_window

NextSettings ==
    \/ ops < MaxOps /\ get_context_settings_handler
    \/ \E payload \in SettingsRequests :
          ops < MaxOps /\ update_context_settings_handler(payload)
    \/ \E confirm \in BOOLEAN : ops < MaxOps /\ delete_all_data(confirm)

SpecSettings == InitSettings /\ [][NextSettings]_vars

\* the process at start-up, for a caller of a helper: all but arguments
InitHelpers ==
    /\ prompt_profiles = <<>>
    /\ prompt_overrides = <<>>
    /\ context_settings = None
    /\ ops = 0
    /\ warmup_completed_at = FALSE
    /\ warmup_lock = [holder |-> 0, waiters |-> <<>>]
    /\ warmups = <<>>
    /\ baseline_jobs = <<>>
    /\ tasks = <<>>
    /\ conversations = <<>>
    /\ performance_exchanges = <<>>
    /\ chats = <<>>
    /\ response = NoResponse
    /\ last_override = None
    /\ pruning_threshold = None /\ ollama_context_window = smallest_window
    /\ prompt_components = DefaultComponents

\* the texts of 0..MaxTextChars characters
Texts == {Str("x", n) : n \in 0..MaxTextChars}

\* the estimators over message lists that grow from the empty list
InitEstimate ==
    /\ InitHelpers
    /\ arguments = Some([messages |-> <<>>, text |-> <<>>])

NextEstimate ==
    \/ estimate_tokens
    \/ \E content \in Texts :
          Len(arguments[1].messages) < MaxMessages /\ estimate_tokens_grown(content)

SpecEstimate == InitEstimate /\ [][NextEstimate]_vars

\* the payload builders over the targets -1..MaxTargetTokens and the
\* targets of the baseline suite, with a seed the length of a case label
\* the totals a backend reports (or omits) and the character counts of
\* the three roles
InitAllocate ==
    /\ InitHelpers
    /\ \E total \in {None} \cup {Some(t) : t \in 0..MaxPromptTokens},
          system_chars \in 0..MaxRoleChars, user_chars \in 0..MaxRoleChars,
          assistant_chars \in 0..MaxRoleChars :
          arguments = Some([total |-> total, system_chars |-> system_chars,
                            user_chars |-> user_chars,
                            assistant_chars |-> assistant_chars])

NextAllocate == allocate_tokens

SpecAllocate == InitAllocate /\ [][NextAllocate]_vars

PayloadTargets == (-1)..MaxTargetTokens \cup {100, 250, 500}

InitPayload ==
    /\ InitHelpers
    /\ arguments \in {Some([kind |-> k, target_tokens |-> t, seed |-> Str("s", n)]) :
                         k \in {"user", "system"}, t \in PayloadTargets, n \in {1, 34}}

NextPayload == build_payload

SpecPayload == InitPayload /\ [][NextPayload]_vars

\* the prompt composer over the component lists
InitCompose ==
    /\ prompt_profiles = <<>>
    /\ prompt_overrides = <<>>
    /\ context_settings = None
    /\ ops = 0
    /\ warmup_completed_at = FALSE
    /\ warmup_lock = [holder |-> 0, waiters |-> <<>>]
    /\ warmups = <<>>
    /\ baseline_jobs = <<>>
    /\ tasks = <<>>
    /\ conversations = <<>>
    /\ performance_exchanges = <<>>
    /\ chats = <<>>
    /\ response = NoResponse
    /\ last_override = None
    /\ pruning_threshold = None /\ ollama_context_window = smallest_window
    /\ arguments = None
    /\ \E n \in 0..MaxComponents :
          \E shapes \in [1..n -> ComponentShapes] :
              prompt_components = [i \in 1..n |-> ComponentOf(i, shapes[i])]

NextCompose == compose_prompt

SpecCompose == InitCompose /\ [][NextCompose]_vars

---------------------------------------------------------------------------
(* Properties. *)

Jobs == 1..Len(baseline_jobs)

IsBackground(j) == tasks[j].kind = "background"

Terminal(job) == job.status \in {"completed", "failed"}

RaiseStep(j) == \E exc \in Exceptions : CallRaises(j, exc)

\* C1: when the k-th model call of a job created by start() raises, the
\* status goes from running to failed, completed_calls is k-1 and below
\* 34, the error is a non-empty string, no result is attached, and the
\* task issues no further model call.
C1_FailureStopsJob ==
    [][\A j \in Jobs :
          /\ (IsBackground(j) /\ RaiseStep(j)) =>
                /\ baseline_jobs[j].status = "running"
                /\ baseline_jobs'[j].status = "failed"
                /\ baseline_jobs'[j].completed_calls = tasks[j].call - 1
                /\ baseline_jobs'[j].completed_calls < 34
                /\ baseline_jobs'[j].error # None
                /\ baseline_jobs'[j].error[1] # ""
                /\ baseline_jobs'[j].result = None
                /\ tasks'[j].pc # "awaiting"
          /\ (IsBackground(j) /\ baseline_jobs[j].status = "failed") =>
                /\ tasks[j].pc # "awaiting"
                /\ tasks'[j].pc # "awaiting"]_vars

\* a job created by start() has failed on its 5th model call
C1_Witness ==
    \E j \in Jobs :
        /\ IsBackground(j)
        /\ baseline_jobs[j].status = "failed"
        /\ baseline_jobs[j].completed_calls = 4
        /\ tasks[j].call = 5

\* C2: every job created by start() eventually reaches status completed
\* or failed, given that its task is scheduled and each of its model
\* calls returns or raises.
C2_JobTerminates ==
    \A j \in 1..MaxJobs :
        (j \in Jobs /\ IsBackground(j)) ~> (j \in Jobs /\ Terminal(baseline_jobs[j]))

\* a job created by start() has run all its calls and is completed
C2_Witness ==
    \E j \in Jobs :
        IsBackground(j) /\ baseline_jobs[j].status = "completed" /\ tasks[j].call = 34

\* C3: once a job's status is completed or failed, no step changes its
\* status, completed_calls, result or error.
C3_TerminalIsFinal ==
    [][\A j \in Jobs :
          Terminal(baseline_jobs[j]) =>
             /\ baseline_jobs'[j].status = baseline_jobs[j].status
             /\ baseline_jobs'[j].completed_calls = baseline_jobs[j].completed_calls
             /\ baseline_jobs'[j].result = baseline_jobs[j].result
             /\ baseline_jobs'[j].error = baseline_jobs[j].error
             /\ tasks'[j].pc = "done"]_vars

\* a job has failed after some calls were counted, its task is over, and
\* a status poll has read it since
C3_Witness ==
    \E j \in Jobs :
        /\ baseline_jobs[j].status = "failed"
        /\ baseline_jobs[j].completed_calls > 0
        /\ tasks[j].pc = "done"
        /\ response.op = "baseline_status"
        /\ response.status = 200
        /\ response.job_id = j
        /\ response.job_status = "failed"

\* C9: a job created by start() whose task ended without a failure is
\* completed with completed_calls = total_calls = 34 and a result of 34
\* calls in the categories simple_qa, summarization, multi_turn,
\* structured_extraction, system_prompt_pressure with 3, 4, 1, 1, 6 cases.
C9_CompletedResult ==
    \A j \in Jobs :
        (IsBackground(j) /\ tasks[j].pc = "done" /\ baseline_jobs[j].error = None) =>
            /\ baseline_jobs[j].status = "completed"
            /\ baseline_jobs[j].completed_calls = 34
            /\ baseline_jobs[j].total_calls = 34
            /\ baseline_jobs[j].result # None
            /\ LET result == baseline_jobs[j].result[1]
               IN /\ result.total_calls = 34
                  /\ [k \in 1..Len(result.categories) |-> result.categories[k].id]
                        = <<"simple_qa", "summarization", "multi_turn",
                            "structured_extraction", "system_prompt_pressure">>
                  /\ [k \in 1..Len(result.categories) |-> Len(result.categories[k].cases)]
                        = <<3, 4, 1, 1, 6>>

\* a job created by start() is completed with its result attached
C9_Witness ==
    \E j \in Jobs :
        /\ IsBackground(j)
        /\ baseline_jobs[j].status = "completed"
        /\ baseline_jobs[j].result # None

\* C10: completed_calls of every job stays within 0..total_calls with
\* total_calls = 34, starts at 0, grows by exactly 1 in a step in which a
\* model call of the job returns, and is unchanged by every other step.
C10_CompletedCallsCount ==
    [][\A j \in 1..Len(baseline_jobs') :
          /\ baseline_jobs'[j].total_calls = 34
          /\ baseline_jobs'[j].completed_calls >= 0
          /\ baseline_jobs'[j].completed_calls <= baseline_jobs'[j].total_calls
          /\ IF j \notin Jobs THEN baseline_jobs'[j].completed_calls = 0
             ELSE IF CallReturns(j)
             THEN baseline_jobs'[j].completed_calls = baseline_jobs[j].completed_calls + 1
             ELSE baseline_jobs'[j].completed_calls = baseline_jobs[j].completed_calls]_vars

\* every call of a run has returned and has been counted
C10_Witness ==
    \E j \in Jobs : baseline_jobs[j].completed_calls = 34 /\ tasks[j].call = 34

\* C4 as stated: after a successful activate(id) the active-profile read
\* the handler answers with returns the profile that was activated.
C4_ActivatedProfileIsActive ==
    (response.op = "activate_prompt_profile" /\ response.status = 200) =>
        /\ response.id = response.requested
        /\ response.is_active

\* the message list without its leading system messages
SurvivingHistory(compaction) ==
    LET lead == IF compaction.compaction_applied THEN 2 ELSE 1
    IN SubSeq(compaction.llm_messages, lead + 1, Len(compaction.llm_messages))

IsSuffix(a, b) == Len(a) <= Len(b) /\ a = SubSeq(b, Len(b) - Len(a) + 1, Len(b))

\* C5 as stated: in every chat turn the history that survives the drop
\* loop is a suffix of the chronological history, whether or not the
\* instruction message was inserted.
C5_EvictionOldestFirst ==
    \A r \in 1..Len(chats) :
        IsSuffix(SurvivingHistory(chats[r].compaction), chats[r].history_messages)

UpdateSettingsStep == response'.op = "update_context_settings" /\ ops' # ops

ReadSettingsStep == response'.op = "get_context_settings" /\ ops' # ops

\* C6 as stated: the stored maxResponseTokens changes only by a settings
\* update, and a read of the settings returns the stored value.
C6_MaxResponseTokensKept ==
    [][(context_settings # None /\ context_settings' # None /\ ~UpdateSettingsStep) =>
          /\ context_settings'[1].max_response_tokens
                = context_settings[1].max_response_tokens
          /\ ReadSettingsStep =>
                response'.settings.max_response_tokens
                   = context_settings[1].max_response_tokens]_vars

\* C7 as stated: at most one model call is in flight at any time.
C7_NoParallelModelCalls ==
    Cardinality(JobsInFlight) + Cardinality(WarmupsInFlight) + Cardinality(ChatsInFlight)
        <= 1

WarmupRaiseStep(w) == \E exc \in Exceptions : WarmupCallRaises(w, exc)

\* C8 as stated: a warm-up request whose model call raises is answered
\* without an error.
C8_WarmupFailureSwallowed ==
    [][\A w \in 1..Len(warmups) :
          WarmupRaiseStep(w) => (response'.op = "llm_warmup" /\ response'.status = 200)]_vars

\* the exceptions an except clause of llm_warmup or of chat names: the
\* httpx errors and RuntimeError, with the classes derived from them
NamedByExceptClause(exc) ==
    \E i \in 1..Len(exc.mro) : exc.mro[i] \in {"HTTPError", "RuntimeError"}

\* C8 amended: a warm-up request whose model call raises is answered with
\* an error: 502 when an except clause names the exception (an httpx
\* error, a RuntimeError, or a subclass of one), 500 for any other; the
\* warm-up stays not completed and the gate is released.
C8_WarmupFailurePropagates ==
    [][\A w \in 1..Len(warmups), exc \in Exceptions :
          WarmupCallRaises(w, exc) =>
             /\ response'.op = "llm_warmup"
             /\ response'.request = w
             /\ response'.status = IF NamedByExceptClause(exc) THEN 502 ELSE 500
             /\ ~warmup_completed_at'
             /\ warmup_lock'.holder = 0]_vars

\* a warm-up request was answered 502 and the process is not warm
C8_Witness ==
    /\ response.op = "llm_warmup"
    /\ response.status = 502
    /\ ~warmup_completed_at


\* the log after a step continues the log before it: what is left of
\* the old entries opens the new log, in order, and entries are missing
\* at the front only when the new log is full
LogContinues(old, new) ==
    \E d \in 0..Len(old) :
        LET kept == SubSeq(old, d + 1, Len(old))
        IN /\ Len(kept) <= Len(new)
           /\ SubSeq(new, 1, Len(kept)) = kept
           /\ d > 0 => Len(new) = 100

\* C11: a job's event log never holds more than 100 entries; every step
\* leaves the surviving entries in order and unchanged and evicts from
\* the front only; an append puts its message last and evicts exactly
\* the oldest entry when the log was full.
C11_EventLogBounded ==
    [][\A j \in 1..Len(baseline_jobs') :
          /\ Len(baseline_jobs'[j].events) <= 100
          /\ j \in Jobs =>
                LET old == baseline_jobs[j].events
                    new == baseline_jobs'[j].events
                IN /\ LogContinues(old, new)
                   /\ AppendEvent(j) =>
                         /\ Len(new) = Min(Len(old) + 1, 100)
                         /\ new[Len(new)] = ProgressMessage(ProgressCount(baseline_jobs[j]) + 1)
                         /\ Len(old) = 100 => SubSeq(new, 1, 99) = SubSeq(old, 2, 100)]_vars

\* a log that saw 103 progress reports holds 100 entries, the oldest of
\* them the 4th report
C11_Witness ==
    \E j \in Jobs :
        /\ Len(baseline_jobs[j].events) = 100
        /\ baseline_jobs[j].events[1] = ProgressMessage(4)
        /\ baseline_jobs[j].events[100] = ProgressMessage(103)


ActiveProfiles == {i \in 1..Len(prompt_profiles) : prompt_profiles[i].is_active}

DefaultProfiles == {i \in 1..Len(prompt_profiles) : prompt_profiles[i].is_default}

\* C12 as stated: at most one profile is active, and exactly one once
\* the profiles have been accessed (the default profile exists).
C12_OneActiveProfile ==
    /\ Cardinality(ActiveProfiles) <= 1
    /\ DefaultProfiles # {} => Cardinality(ActiveProfiles) = 1


\* the settings a chat turn of this behaviour read, and its list before
\* the instruction insertion
TurnSettings == context_settings[1]

TurnBase(r) ==
    <<chats[r].compaction.llm_messages[1]>> \o chats[r].history_messages

InstructionMessage(settings) ==
    [role |-> "system", content |-> Strip(settings.compact_instructions)]

\* the instruction message sits at position 1 of the list
InstructionAtOne(llm_messages, settings) ==
    Len(llm_messages) >= 2 /\ llm_messages[2] = InstructionMessage(settings)

\* ceil(chars / 4), at least 1
EstimateOf(messages) ==
    LET chars == SumLen(messages)
    IN IF chars <= 4 THEN 1 ELSE (chars + 3) \div 4

\* floor(maxContextTokens * compactTriggerPct) of the two numbers as
\* they are written, the percentage in hundredths
ThresholdOf(settings) ==
    (settings.max_context_tokens * settings.compact_trigger_pct) \div 100

\* the settings of the documented example: window 100, trigger 0.9
ExampleSettings(instructions) ==
    [max_context_tokens |-> 100, max_response_tokens |-> 512,
     compact_trigger_pct |-> 90, compact_instructions |-> instructions]

\* the list Compact builds for the example settings and a history of one
\* user message that brings [system prompt] + history to n characters
ExampleList(n, instructions) ==
    LET prompt == compose_system_prompt(DefaultComponents)
    IN Compact(prompt, <<ChatMessageIn("user", Str("u", n - StrLen(prompt)))>>,
               ExampleSettings(instructions)).llm_messages

ExampleInserted(n, instructions) ==
    InstructionAtOne(ExampleList(n, instructions), ExampleSettings(instructions))

\* C13 as stated: in every chat turn the instruction message is at
\* position 1 of the list exactly when the trimmed instructions are
\* non-empty and the estimate of [system prompt] + history is at least
\* floor(maxContextTokens * compactTriggerPct); with window 100 and
\* trigger 0.9 it is inserted at estimates 95 and 90, not at 89 and 50,
\* and not at 95 when the instructions are blank.
C13_InstructionInsertedIff ==
    /\ \A r \in 1..Len(chats) :
          LET c == chats[r].compaction
              due == /\ Strip(TurnSettings.compact_instructions) # <<>>
                     /\ EstimateOf(TurnBase(r)) >= ThresholdOf(TurnSettings)
          IN /\ InstructionAtOne(c.llm_messages, TurnSettings) <=> due
             /\ c.compaction_applied <=> due
    /\ ExampleInserted(380, default_compaction_instructions)
    /\ ExampleInserted(360, default_compaction_instructions)
    /\ ~ExampleInserted(356, default_compaction_instructions)
    /\ ~ExampleInserted(200, default_compaction_instructions)
    /\ ~ExampleInserted(380, Str(" ", 3))

\* the length of the list of turn r when the drop loop starts
LoopEntryLen(r) ==
    1 + Len(chats[r].history_messages)
      + (IF chats[r].compaction.compaction_applied THEN 1 ELSE 0)

\* the list Compact returns for a window and one user message of n characters
LoopExample(window, n) ==
    Compact(compose_system_prompt(DefaultComponents),
            <<ChatMessageIn("user", Str("u", n))>>,
            [max_context_tokens |-> window, max_response_tokens |-> 512,
             compact_trigger_pct |-> 90,
             compact_instructions |-> default_compaction_instructions])

\* C14: the drop loop of every chat turn ends; each of its iterations
\* shortens the list by exactly one, so the list sent is shorter than the
\* list at loop entry by the number of iterations; on exit the list has at
\* most 2 messages or its estimate is within maxContextTokens. With a
\* window below the two system messages the loop ends at length 2.
C14_DropLoopTerminates ==
    /\ \A r \in 1..Len(chats) :
          LET c == chats[r].compaction
          IN /\ c.dropped_history_messages >= 0
             /\ Len(c.llm_messages) = LoopEntryLen(r) - c.dropped_history_messages
             /\ Len(c.llm_messages) <= LoopEntryLen(r)
             /\ c.dropped_history_messages > 0 => Len(c.llm_messages) >= 2
             /\ \/ Len(c.llm_messages) <= 2
                \/ EstimateOf(c.llm_messages) <= TurnSettings.max_context_tokens
             /\ Len(c.llm_messages) > 2 =>
                   Len(RemoveAt(c.llm_messages, 3)) = Len(c.llm_messages) - 1
    /\ Len(LoopExample(50, 346).llm_messages) = 2
    /\ LoopExample(50, 346).dropped_history_messages = 1
    /\ EstimateOf(LoopExample(50, 346).llm_messages) > 50

\* a turn whose loop ran and stopped with history left, within the window
C14_Witness ==
    \E r \in 1..Len(chats) :
        /\ chats[r].compaction.dropped_history_messages >= 1
        /\ Len(chats[r].compaction.llm_messages) > 2
        /\ chats[r].compaction.est_prompt_tokens_after <= TurnSettings.max_context_tokens
        /\ chats[r].compaction.est_prompt_tokens_before > TurnSettings.max_context_tokens

\* the prompt a chat turn composes from the stored profile and overrides
ComposedPrompt ==
    composed_prompt(ensure_default_prompt_profile(prompt_profiles), prompt_overrides)

\* C15: the list every chat turn sends has the composed system prompt at
\* index 0, whether or not the instruction message was inserted and
\* whatever the drop loop removed.
C15_SystemPromptFirst ==
    \A r \in 1..Len(chats) :
        LET c == chats[r].compaction
        IN /\ Len(c.llm_messages) >= 1
           /\ ComposedPrompt # None
           /\ c.llm_messages[1] = [role |-> "system", content |-> ComposedPrompt[1]]
           /\ \A k \in 2..Len(c.llm_messages) :
                 c.llm_messages[k].role = "system" => (k = 2 /\ c.compaction_applied)

\* a turn with the instruction message inserted and history dropped
C15_Witness ==
    \E r \in 1..Len(chats) :
        /\ chats[r].compaction.compaction_applied
        /\ chats[r].compaction.dropped_history_messages >= 1
        /\ chats[r].compaction.llm_messages[1].role = "system"

InstructionCount(llm_messages) ==
    Cardinality({k \in 1..Len(llm_messages) :
                    llm_messages[k] = InstructionMessage(TurnSettings)})

\* C16: the list of every chat turn holds at most one instruction
\* message, exactly one when compaction applied, and the stored history
\* of every conversation holds user and assistant messages only.
C16_OneInstructionMessage ==
    /\ \A r \in 1..Len(chats) :
          LET c == chats[r].compaction
          IN /\ InstructionCount(c.llm_messages) <= 1
             /\ InstructionCount(c.llm_messages) = (IF c.compaction_applied THEN 1 ELSE 0)
             /\ \A k \in 1..Len(chats[r].history_messages) :
                   chats[r].history_messages[k].role \in {"user", "assistant"}
    /\ \A cid \in 1..Len(conversations) :
          \A k \in 1..Len(conversations[cid].messages) :
              conversations[cid].messages[k].role \in {"user", "assistant"}

\* two successive turns of one conversation, both sent with the
\* instruction message
C16_Witness ==
    \E r1, r2 \in 1..Len(chats) :
        /\ r1 < r2
        /\ chats[r1].conversation_id = chats[r2].conversation_id
        /\ chats[r1].compaction.compaction_applied
        /\ chats[r2].compaction.compaction_applied
        /\ Len(chats[r2].history_messages) > 1


ProfileIds == {prompt_profiles[i].id : i \in 1..Len(prompt_profiles)}

\* C17: activate(id) with an id that names no profile answers NotFound
\* (404) and leaves the profile table, and so every active flag, as it was.
C17_ActivateUnknownId ==
    [][\A id \in 1..(MaxProfiles + 2) :
          (activate_prompt_profile_handler(id) /\ id \notin ProfileIds) =>
              /\ response'.op = "activate_prompt_profile"
              /\ response'.status = 404
              /\ prompt_profiles' = prompt_profiles
              /\ prompt_overrides' = prompt_overrides]_vars

\* an activate was answered NotFound while a profile is active
C17_Witness ==
    /\ response.op = "activate_prompt_profile"
    /\ response.status = 404
    /\ response.requested \notin ProfileIds
    /\ ActiveProfiles # {}

\* a step of a handler that reads the tenant's profiles
ProfileAccessStep ==
    /\ ops' # ops
    /\ response'.status = 200
    /\ response'.op \in {"get_system_prompt", "get_prompt_components",
                         "get_prompt_profiles", "activate_prompt_profile",
                         "update_prompt_component", "reset_prompts"}

DeleteAllStep == ops' # ops /\ response'.op = "delete_all_data"

CreateProfileStep ==
    ops' # ops /\ response'.op = "create_prompt_profile" /\ response'.status = 200

RejectedCreateStep ==
    ops' # ops /\ response'.op = "create_prompt_profile" /\ response'.status = 422

DefaultCount(rows) == Cardinality({i \in 1..Len(rows) : rows[i].is_default})

\* C18: a tenant never has two default profiles; a handler that reads
\* the profiles leaves exactly one, created when there was none; once
\* there is one, create, activate, reset and the reads keep exactly one;
\* a created profile is neither default nor active, and a create request
\* that is rejected creates none.
C18_OneDefaultProfile ==
    [][/\ DefaultCount(prompt_profiles') <= 1
       /\ ProfileAccessStep => DefaultCount(prompt_profiles') = 1
       /\ (DefaultCount(prompt_profiles) = 1 /\ ~DeleteAllStep) =>
             DefaultCount(prompt_profiles') = 1
       /\ CreateProfileStep =>
             /\ Len(prompt_profiles') = Len(prompt_profiles) + 1
             /\ SubSeq(prompt_profiles', 1, Len(prompt_profiles)) = prompt_profiles
             /\ ~prompt_profiles'[Len(prompt_profiles')].is_default
             /\ ~prompt_profiles'[Len(prompt_profiles')].is_active
             /\ ~response'.is_default
             /\ ~response'.is_active
       /\ RejectedCreateStep => prompt_profiles' = prompt_profiles]_vars

\* the default profile exists next to two created profiles
C18_Witness ==
    /\ Len(prompt_profiles) = 3
    /\ DefaultCount(prompt_profiles) = 1
    /\ response.op = "create_prompt_profile"


\* the profile the composer reads, and its overrides
ActiveId == ActiveRow(ensure_default_prompt_profile(prompt_profiles)).id

EffectiveComponents ==
    effective_prompt_components(ensure_default_prompt_profile(prompt_profiles),
                                prompt_overrides)

ResetStep == ops' # ops /\ response'.op = "reset_prompts"

\* the handler that ran last stored an override with enabled = false
JustDisabled ==
    /\ response.op = "update_prompt_component"
    /\ response.status # 404
    /\ last_override # None
    /\ last_override[1].payload.enabled = Some(FALSE)

\* a component override with enabled = false has just been stored
DisableStep ==
    /\ ops' # ops
    /\ response'.op = "update_prompt_component"
    /\ response'.status # 404
    /\ last_override'[1].payload.enabled = Some(FALSE)

\* the merge the documentation describes: the default components, content
\* and enabled replaced where the override ov has a non-null value
SpecifiedComponents(ov) ==
    [i \in 1..Len(DefaultComponents) |->
        LET item == DefaultComponents[i]
        IN IF item.id \notin DOMAIN ov THEN item
           ELSE [item EXCEPT
                    !.content = IF ov[item.id].content # None
                                THEN ov[item.id].content[1] ELSE item.content,
                    !.enabled = IF ov[item.id].enabled # None
                                THEN ov[item.id].enabled[1] ELSE item.enabled]]

\* C19: an override to enabled = false leaves the component's content
\* out of the composed prompt, and a reset that follows it deletes every
\* override of the active profile, leaves the profile active and makes
\* the composed prompt equal to the value it had immediately before the
\* override.
C19_DisableThenReset ==
    [][/\ DisableStep =>
             LET c == last_override'[1].component_id
                 ov == get_prompt_overrides(prompt_overrides', ActiveId')
             IN /\ ComposedPrompt' # None
                /\ ComposedPrompt'[1] =
                      compose_system_prompt(
                          SelectSeq(SpecifiedComponents(ov), LAMBDA x : x.id # c))
       /\ (JustDisabled /\ ResetStep) =>
             /\ DOMAIN get_prompt_overrides(prompt_overrides', ActiveId') = {}
             /\ ActiveId' = ActiveId
             /\ ComposedPrompt' = last_override[1].prompt_before]_vars


\* the call returns, and returns the defaults with the overrides ov
\* applied as documented
MergedAsSpecified(effective, ov) ==
    /\ ~effective.raised
    /\ effective.value = SpecifiedComponents(ov)

\* C20: for every stored override table the effective components are
\* the default components, with the same ids, order values and count;
\* content and enabled differ from the default only where the active
\* profile's override for that id has a non-null value.
C20_EffectiveComponents ==
    MergedAsSpecified(EffectiveComponents,
                      get_prompt_overrides(prompt_overrides, ActiveId))


\* the components that contribute: enabled, with non-blank content
Contributing ==
    {i \in 1..Len(prompt_components) :
        prompt_components[i].enabled /\ Strip(prompt_components[i].content) # <<>>}

\* the ways to list the contributing components by ascending order key
AscendingArrangements ==
    {f \in [1..Cardinality(Contributing) -> Contributing] :
        /\ \A i, j \in DOMAIN f : i # j => f[i] # f[j]
        /\ \A i, j \in DOMAIN f :
              i < j => prompt_components[f[i]].order <= prompt_components[f[j]].order}

RECURSIVE JoinedByBlankLine(_)
JoinedByBlankLine(parts) ==
    IF Len(parts) = 1 THEN parts[1]
    ELSE Concat(JoinedByBlankLine(SubSeq(parts, 1, Len(parts) - 1)),
                Concat(Str("\n", 2), parts[Len(parts)]))

\* C21: the composed prompt is never empty; it is the fallback sentence
\* when the list is empty or holds only disabled or blank components,
\* and otherwise the trimmed contents of the enabled non-blank
\* components joined by a blank line in ascending order.
C21_ComposedPrompt ==
    response.op = "compose_system_prompt" =>
        /\ response.system_prompt # <<>>
        /\ Contributing = {} => response.system_prompt = FallbackPrompt
        /\ Contributing # {} =>
              \E f \in AscendingArrangements :
                  response.system_prompt =
                      JoinedByBlankLine([i \in DOMAIN f |-> Strip(prompt_components[f[i]].content)])

\* a padded component of order 2, a blank one and a plain one of order 1
\* were composed into the plain one, a blank line, the trimmed one
C21_Witness ==
    /\ Len(prompt_components) = 3
    /\ \A i \in 1..3 : prompt_components[i].enabled
    /\ prompt_components[1].order = 2 /\ Len(prompt_components[1].content) = 3
    /\ prompt_components[2].content = Str(" ", 3)
    /\ prompt_components[3].order = 1 /\ prompt_components[3].content = Str("c", 5)
    /\ response.op = "compose_system_prompt"
    /\ response.system_prompt = Str("c", 5) \o Str("\n", 2) \o Str("a", 4)


\* C22: every read of the context settings returns, and leaves stored,
\* max_context_tokens equal to the configured window, and every accepted
\* update stores the configured window whatever window the request
\* carries.
C22_WindowSynchronized ==
    [][/\ ReadSettingsStep =>
             /\ response'.settings.max_context_tokens = ollama_context_window
             /\ context_settings' # None
             /\ context_settings'[1].max_context_tokens = ollama_context_window
       /\ (UpdateSettingsStep /\ response'.status = 200) =>
             /\ response'.settings.max_context_tokens = ollama_context_window
             /\ context_settings' # None
             /\ context_settings'[1].max_context_tokens = ollama_context_window]_vars

\* the first request read the row inherited from a run under window
\* 4096 and was answered with the configured window
C22_Witness ==
    /\ ops = 1
    /\ response.op = "get_context_settings"
    /\ response.settings.compact_instructions = StaleSettings.compact_instructions
    /\ response.settings.max_context_tokens = ollama_context_window
    /\ context_settings[1].max_context_tokens = ollama_context_window

\* the ranges the settings fields are documented to have
OutOfRange(payload) ==
    \/ /\ payload.max_response_tokens # None
       /\ payload.max_response_tokens[1] \notin 16..262144
    \/ /\ payload.compact_trigger_pct # None
       /\ payload.compact_trigger_pct[1] \notin 10..100

\* C23: a settings update with max_response_tokens outside 16..262144 or
\* compact_trigger_pct outside 0.1..1.0 is answered with a validation
\* error (422) and leaves the stored settings unchanged.
C23_OutOfRangeRejected ==
    [][\A payload \in SettingsRequests :
          (OutOfRange(payload) /\ update_context_settings_handler(payload)) =>
              /\ response'.op = "update_context_settings"
              /\ response'.status = 422
              /\ context_settings' = context_settings]_vars

\* an update was rejected while a settings row exists
C23_Witness ==
    /\ response.op = "update_context_settings"
    /\ response.status = 422
    /\ context_settings # None
    /\ ops >= 2


\* C24 as stated: the stored compact_trigger_pct lies in (0, 1], so the
\* compaction threshold never exceeds max_context_tokens, the row
\* created from the configured default included.
C24_TriggerInRange ==
    context_settings # None =>
        /\ context_settings[1].compact_trigger_pct > 0
        /\ context_settings[1].compact_trigger_pct <= 100
        /\ CompactThreshold(context_settings[1]) <= context_settings[1].max_context_tokens


\* the requests that pass the gate in this step without a model call
WarmupAnsweredNow ==
    {w \in 1..Len(warmups') :
        /\ warmups'[w] = "done"
        /\ w \in 1..Len(warmups) => warmups[w] \in {"arrived", "waiting"}}

\* C25: at most one warm-up model call is in flight at a time; and while
\* the process is warmed (a warm-up call has succeeded and no data
\* deletion has followed) no step issues a warm-up model call: a request
\* that passes the gate is answered already_warmed.
C25_OneWarmupCall ==
    [][/\ Cardinality(WarmupsInFlight') <= 1
       /\ warmup_completed_at =>
             /\ WarmupsInFlight = {}
             /\ WarmupsInFlight' = {}
             /\ \A w \in WarmupAnsweredNow :
                   /\ response'.op = "llm_warmup"
                   /\ response'.request = w
                   /\ response'.text = "already_warmed"]_vars

\* three requests overlapped: the first made the call, the second was
\* answered already_warmed, the third is still queued
C25_Witness ==
    /\ warmup_completed_at
    /\ response.op = "llm_warmup"
    /\ response.request = 2
    /\ response.text = "already_warmed"
    /\ warmup_lock.waiters = <<3>>


\* C26: a step changes at most one entry of the job table; an entry that
\* exists before the step changes only in a step of the task executing
\* that job, and that step (progress, completion or failure) leaves the
\* entry of every other job as it was.
C26_JobEntriesIsolated ==
    [][\A j \in Jobs :
          baseline_jobs'[j] # baseline_jobs[j] =>
              /\ tasks'[j] # tasks[j]
              /\ \A k \in Jobs \ {j} :
                    /\ baseline_jobs'[k] = baseline_jobs[k]
                    /\ tasks'[k] = tasks[k]]_vars

\* one job has failed on its 2nd call while the other, started before
\* it, is still running with calls completed
C26_Witness ==
    /\ Len(baseline_jobs) = 2
    /\ baseline_jobs[2].status = "failed"
    /\ baseline_jobs[2].completed_calls = 1
    /\ baseline_jobs[1].status = "running"
    /\ baseline_jobs[1].completed_calls = 3
    /\ baseline_jobs[1].error = None


StartStep ==
    /\ Len(baseline_jobs') = Len(baseline_jobs) + 1
    /\ tasks'[Len(tasks')].kind = "background"

\* C27: start() answers with the id of the new job and status running
\* while the task of that job has issued no model call, and at that
\* moment the entry is running with total_calls 34, completed_calls 0,
\* no result and no error; the entry stays so until the task first runs.
C27_StartReturnsFirst ==
    [][/\ StartStep =>
             LET j == Len(baseline_jobs')
             IN /\ response'.op = "start_baseline"
                /\ response'.job_id = j
                /\ response'.status = "running"
                /\ tasks'[j].pc = "created"
                /\ tasks'[j].call = 0
       /\ \A j \in 1..Len(baseline_jobs') :
             (IsBackground(j)' /\ tasks'[j].pc = "created") =>
                 /\ baseline_jobs'[j].status = "running"
                 /\ baseline_jobs'[j].total_calls = 34
                 /\ baseline_jobs'[j].completed_calls = 0
                 /\ baseline_jobs'[j].result = None
                 /\ baseline_jobs'[j].error = None]_vars

\* start() has answered and the task of the job has not run yet
C27_Witness ==
    /\ response.op = "start_baseline"
    /\ response.job_id = 1
    /\ tasks[1].pc = "created"
    /\ baseline_jobs[1].total_calls = 34
    /\ baseline_jobs[1].completed_calls = 0


ClaimedStep(label) == [label |-> label, turn |-> 0]

\* the 34 calls in the documented order
ClaimedOrder ==
    << ClaimedStep("Simple Q/A (100 user tokens)"),
       ClaimedStep("Simple Q/A (250 user tokens)"),
       ClaimedStep("Simple Q/A (500 user tokens)"),
       ClaimedStep("Summarization (200 user tokens)"),
       ClaimedStep("Summarization (500 user tokens)"),
       ClaimedStep("Summarization (1000 user tokens)"),
       ClaimedStep("Summarization (2000 user tokens)") >>
    \o [t \in 1..20 |-> [label |-> "20-turn conversation (50-200 user tokens/turn)",
                          turn |-> t]]
    \o << ClaimedStep("Structured Extraction (400 user tokens)"),
          ClaimedStep("System Prompt Pressure (200 system tokens)"),
          ClaimedStep("System Prompt Pressure (500 system tokens)"),
          ClaimedStep("System Prompt Pressure (1000 system tokens)"),
          ClaimedStep("System Prompt Pressure (2000 system tokens)"),
          ClaimedStep("System Prompt Pressure (5000 system tokens)"),
          ClaimedStep("System Prompt Pressure (10000 system tokens)") >>

\* C28: in every run the model calls are issued one at a time in the
\* documented order of 34: while call n is in flight exactly the n-1
\* calls before it have returned, the log holds after its two opening
\* entries the Running and the Completed event of each returned call, in
\* that order and call by call, and the Running event of call n last.
C28_CallsSequential ==
    /\ Len(ClaimedOrder) = 34
    /\ \A j \in Jobs :
          LET n == tasks[j].call
              job == baseline_jobs[j]
          IN /\ n <= 34
             /\ job.completed_calls \in {n - 1, n} \cap 0..34
             /\ tasks[j].pc = "awaiting" =>
                   /\ n >= 1
                   /\ job.completed_calls = n - 1
                   /\ job.current_step = ClaimedOrder[n]
                   /\ Len(job.events) = 2 * n + 1
             /\ \A k \in 1..n :
                   job.events[2 * k + 1] = EventMsg("Running: ", ClaimedOrder[k])
             /\ \A k \in 1..job.completed_calls :
                   job.events[2 * k + 2] = EventMsg("Completed: ", ClaimedOrder[k])

\* the run has its 30th call in flight, the pressure case of 500 tokens
C28_Witness ==
    \E j \in Jobs :
        /\ tasks[j].pc = "awaiting"
        /\ tasks[j].call = 30
        /\ baseline_jobs[j].current_step = ClaimedStep("System Prompt Pressure (500 system tokens)")
        /\ baseline_jobs[j].completed_calls = 29


StoredAssistantMessage(conv, content) ==
    \E i \in 1..Len(conv.messages) :
        conv.messages[i] = ChatMessageIn("assistant", content)

\* C29: when the title call of a chat turn raises, the conversation
\* title keeps its value, and the turn is answered 200 with its
\* assistant message, which is stored in the conversation.
C29_TitleFailureSwallowed ==
    [][\A r \in 1..Len(chats) :
          TitleCallRaises(r) =>
              LET cid == chats[r].conversation_id
              IN /\ conversations'[cid].title = conversations[cid].title
                 /\ response'.op = "chat"
                 /\ response'.request = r
                 /\ response'.status = 200
                 /\ response'.assistant_message # None
                 /\ StoredAssistantMessage(conversations'[cid],
                                           response'.assistant_message[1])]_vars

\* a turn whose title call raised was answered 200 with its reply, and
\* the conversation still carries the title taken from the message
C29_Witness ==
    \E r \in 1..Len(chats) :
        /\ chats[r].title_call = "raised"
        /\ response.op = "chat"
        /\ response.request = r
        /\ response.status = 200
        /\ response.assistant_message = Some(Str("r", 500))
        /\ conversations[chats[r].conversation_id].title = Str("u", 40)

ChatRaiseStep(r) == \E exc \in ChatExceptions : ChatCallRaises(r, exc)

\* C30: when the model call of a chat turn raises, the request ends
\* there: it is answered with an error (502, or 500 for an exception
\* the handler does not name), no reply and no exchange are stored, and
\* a request that has ended never has a model call in flight again.
C30_ChatFailureSurfaced ==
    [][\A r \in 1..Len(chats) :
          /\ \A exc \in ChatExceptions :
                ChatCallRaises(r, exc) =>
                   response'.status = IF NamedByExceptClause(exc) THEN 502 ELSE 500
          /\ ChatRaiseStep(r) =>
                /\ response'.op = "chat"
                /\ response'.request = r
                /\ response'.status \in {500, 502}
                /\ response'.assistant_message = None
                /\ chats'[r].pc = "done"
                /\ conversations' = conversations
                /\ performance_exchanges' = performance_exchanges
          /\ chats[r].pc = "done" => chats'[r].pc = "done"]_vars

\* a turn was answered 502 and its conversation holds the user message
\* alone
C30_Witness ==
    \E r \in 1..Len(chats) :
        /\ chats[r].pc = "done"
        /\ response.op = "chat"
        /\ response.request = r
        /\ response.status = 502
        /\ Len(conversations[chats[r].conversation_id].messages) = 1


CharsOf(messages) == SumLen(messages)

\* ceil(chars / 4) by its definition: the least k with 4 * k >= chars
CeilQuarter(chars) == CHOOSE k \in 0..chars : 4 * k >= chars /\ 4 * (k - 1) < chars

\* C31: the estimate of a text and of a message list is
\* max(1, ceil(characters / 4)): at least 1, for the empty string and
\* the empty list too, and from one estimate to the next it does not
\* fall when the character count does not fall.
C31_EstimateFloorMonotone ==
    [][response'.op = "estimate_tokens" =>
          LET chars == CharsOf(arguments'[1].messages)
              len == StrLen(arguments'[1].text)
          IN /\ response'.messages >= 1
             /\ response'.text >= 1
             /\ response'.messages = Max(1, CeilQuarter(chars))
             /\ response'.text = Max(1, CeilQuarter(len))
             /\ response.op = "estimate_tokens" =>
                   /\ chars >= CharsOf(arguments[1].messages) =>
                         response'.messages >= response.messages
                   /\ len >= StrLen(arguments[1].text) =>
                         response'.text >= response.text
                   /\ len <= StrLen(arguments[1].text) =>
                         response'.text <= response.text]_vars

\* the empty list and the empty string were estimated at 1
C31_Witness ==
    /\ arguments = Some([messages |-> <<>>, text |-> <<>>])
    /\ response.op = "estimate_tokens"
    /\ response.messages = 1
    /\ response.text = 1


\* C32 as stated: once a model call of a direct run has raised, the
\* entry the run created is failed with a non-empty error.
C32_DirectFailureRecorded ==
    \A j \in Jobs :
        (tasks[j].kind = "direct" /\ tasks[j].pc = "raised") =>
            /\ baseline_jobs[j].status = "failed"
            /\ baseline_jobs[j].error # None
            /\ baseline_jobs[j].error[1] # ""


InMultiTurn(n) == BaselineCases[CallPlan[n].case].category = "multi_turn"

MultiTurnResults(cases) ==
    {k \in 1..Len(cases) : cases[k].category = "multi_turn"}

\* C33: the multi-turn case issues exactly 20 model calls; its i-th call
\* is given 2i+1 messages: the two system messages, then the user
\* payloads of turns 1..i with the assistant replies of turns 1..i-1
\* between them, in order; and its result records 20 calls and 20
\* entries in each per-turn array.
C33_MultiTurnReplay ==
    /\ Cardinality({n \in 1..LastCall : InMultiTurn(n)}) = 20
    /\ \A j \in Jobs :
          LET t == tasks[j]
          IN /\ (t.pc = "awaiting" /\ InMultiTurn(t.call)) =>
                   LET i == CallPlan[t.call].turn
                   IN /\ Len(t.messages) = 2 * i + 1
                      /\ t.messages[1].role = "system"
                      /\ t.messages[2].role = "system"
                      /\ \A k \in 1..i :
                            t.messages[2 * k + 1] =
                                [role |-> "user", content |-> <<"user_payload", k>>]
                      /\ \A k \in 1..(i - 1) :
                            t.messages[2 * k + 2] =
                                [role |-> "assistant", content |-> <<"completion", k>>]
             /\ \A k \in MultiTurnResults(t.cases) :
                   /\ t.cases[k].calls = 20
                   /\ Len(t.cases[k].per_turn_latency_ms) = 20
                   /\ Len(t.cases[k].per_turn_prompt_tokens) = 20
                   /\ Len(t.cases[k].per_turn_completion_tokens) = 20
                   /\ baseline_jobs[j].completed_calls >= 27

\* the 20th call of the multi-turn case is in flight with 41 messages
C33_Witness ==
    \E j \in Jobs :
        /\ tasks[j].pc = "awaiting"
        /\ InMultiTurn(tasks[j].call)
        /\ CallPlan[tasks[j].call].turn = 20
        /\ Len(tasks[j].messages) = 41
        /\ tasks[j].messages[40].role = "assistant"


\* the fragment the arguments of the payload builder make
FragmentOf(args) ==
    IF args.kind = "user" THEN user_fragment(args.seed) ELSE system_fragment(args.seed)

RECURSIVE Copies(_, _)
Copies(fragment, n) == IF n = 0 THEN <<>> ELSE fragment \o Copies(fragment, n - 1)

\* max(1, ceil(chars / 4)), in integers
QuarterEstimate(chars) == IF chars <= 4 THEN 1 ELSE (chars + 3) \div 4

\* C34: the payload built for a target is a whole number n of copies of
\* the fragment whose estimate is at least the target, n is minimal
\* (n - 1 copies estimate below the target), and a target of at most 1
\* gives the empty payload.
C34_PayloadMinimal ==
    response.op = "build_payload" =>
        LET args == arguments[1]
            flen == StrLen(FragmentOf(args))
            chars == StrLen(response.text)
            n == chars \div flen
        IN /\ response.text = Copies(FragmentOf(args), n)
           /\ QuarterEstimate(chars) >= args.target_tokens
           /\ n > 0 => QuarterEstimate((n - 1) * flen) < args.target_tokens
           /\ args.target_tokens <= 1 => response.text = <<>>

\* the system payload for 500 tokens with a seed of 34 characters:
\* 12 copies of 168 characters
C34_Witness ==
    /\ response.op = "build_payload"
    /\ arguments[1] = [kind |-> "system", target_tokens |-> 500, seed |-> Str("s", 34)]
    /\ StrLen(response.text) = 12 * 168


\* C35: the message list every chat turn passes to the model ends with
\* the user message submitted in that turn; the drop loop never evicts it.
C35_CurrentMessageKept ==
    \A r \in 1..Len(chats) :
        LET sent == chats[r].compaction.llm_messages
        IN /\ sent # <<>>
           /\ sent[Len(sent)] = ChatMessageIn("user", chats[r].message)


\* the chat turns sent to conversation cid, and those whose model call
\* returned
TurnsOn(cid) == {q \in 1..Len(chats) : chats[q].conversation_id = cid}

AnsweredOn(cid) == {q \in TurnsOn(cid) : chats[q].assistant_message # None}

\* C36: after the model call of a chat turn has failed, the conversation
\* of the turn exists and still holds the user message of every turn sent
\* to it, while assistant messages and performance exchanges are recorded
\* only for the turns whose model call returned.
C36_FailedTurnKeepsUserMessage ==
    \A r \in 1..Len(chats) :
        chats[r].pc = "done" /\ chats[r].assistant_message = None =>
            LET cid == chats[r].conversation_id
                stored == conversations[cid].messages
            IN /\ conversations[cid].exists
               /\ \E k \in 1..Len(stored) :
                     stored[k] = ChatMessageIn("user", chats[r].message)
               /\ Len(SelectSeq(stored, LAMBDA m : m.role = "user"))
                     = Cardinality(TurnsOn(cid))
               /\ Len(SelectSeq(stored, LAMBDA m : m.role = "assistant"))
                     = Cardinality(AnsweredOn(cid))
               /\ Len(SelectSeq(performance_exchanges,
                                LAMBDA e : e.conversation_id = cid))
                     = Cardinality(AnsweredOn(cid))

\* the only turn of a conversation created for it failed: the
\* conversation holds the user message, no reply, and no exchange exists
C36_Witness ==
    /\ Len(chats) = 1
    /\ chats[1].pc = "done"
    /\ chats[1].assistant_message = None
    /\ conversations[1].exists
    /\ conversations[1].messages = <<ChatMessageIn("user", chats[1].message)>>
    /\ performance_exchanges = <<>>


\* C37: every answer of the context-settings handlers carries non-blank
\* instructions, the stored row is never blank between handlers, and every
\* chat turn whose estimate reaches the threshold sends an instruction
\* message at position 1, whatever instructions the updates before it set.
C37_InstructionsNeverBlank ==
    /\ response.op \in {"get_context_settings", "update_context_settings"}
       /\ response.status = 200
          => Strip(response.settings.compact_instructions) # <<>>
    /\ context_settings # None => Strip(context_settings[1].compact_instructions) # <<>>
    /\ \A r \in 1..Len(chats) :
          LET sent == chats[r].compaction
          IN sent.est_prompt_tokens_before >= sent.compact_threshold =>
                /\ sent.compaction_applied
                /\ Len(sent.llm_messages) >= 2
                /\ sent.llm_messages[2].role = "system"
                /\ sent.llm_messages[2].content # <<>>

\* an update with blank instructions was answered with the default
\* instructions, and the chat turn after it inserted them
C37_Witness ==
    /\ response.op = "update_context_settings"
    /\ response.settings.compact_instructions = default_compaction_instructions
    /\ Len(chats) = 1
    /\ chats[1].compaction.compaction_applied
    /\ chats[1].compaction.llm_messages[2]
          = ChatMessageIn("system", default_compaction_instructions)


\* C38: for every job created by start(), in the job table and in every
\* answer of a status poll: the result is present exactly when the status
\* is completed, and the error is present exactly when it is failed.
C38_ResultAndErrorMatchStatus ==
    /\ \A j \in Jobs :
          IsBackground(j) =>
             /\ baseline_jobs[j].result # None <=> baseline_jobs[j].status = "completed"
             /\ baseline_jobs[j].error # None <=> baseline_jobs[j].status = "failed"
    /\ response.op = "baseline_status" /\ response.status = 200
          => /\ response.result # None <=> response.job_status = "completed"
             /\ response.error # None <=> response.job_status = "failed"
             /\ response.job_status \in {"running", "completed", "failed"}

\* a poll answered while the job was running, with neither result nor
\* error, and the job has completed since
C38_Witness ==
    /\ response.op = "baseline_status"
    /\ response.status = 200
    /\ response.job_status = "running"
    /\ response.completed_calls > 0
    /\ response.result = None
    /\ baseline_jobs[response.job_id].status = "completed"
    /\ baseline_jobs[response.job_id].result # None


\* C39: when the backend reports a prompt-token total and the prompt has
\* at least one character, the three estimates allocated from the total
\* are each non-negative and sum exactly to it.
C39_AllocationExact ==
    response.op = "allocate_estimated_tokens"
    /\ arguments[1].total # None
    /\ arguments[1].system_chars + arguments[1].user_chars
          + arguments[1].assistant_chars >= 1
       => /\ response.est.system[1] >= 0
          /\ response.est.user[1] >= 0
          /\ response.est.assistant[1] >= 0
          /\ response.est.system[1] + response.est.user[1] + response.est.assistant[1]
                = arguments[1].total[1]


\* C40 as stated: a step keeps every overridden field of every stored
\* override: a patch changes a field only to the non-null value it
\* carries, and a field stops being overridden only by a reset of its
\* profile.
C40_OnlyThroughReset ==
    [][\A key \in DOMAIN prompt_overrides :
          \/ response'.op = "reset_prompts" /\ response'.profile_id = key[1]
          \/ /\ key \in DOMAIN prompt_overrides'
             /\ \A field \in {"content", "enabled"} :
                   prompt_overrides[key][field] # None =>
                      \/ prompt_overrides'[key][field] = prompt_overrides[key][field]
                      \/ /\ response'.op = "update_prompt_component"
                         /\ response'.status # 404
                         /\ last_override'[1].profile_id = key[1]
                         /\ last_override'[1].component_id = key[2]
                         /\ last_override'[1].payload[field] # None
                         /\ prompt_overrides'[key][field] = last_override'[1].payload[field]
      ]_vars

\* C40 amended: a step keeps every overridden field of every stored
\* override: a patch changes a field only to the non-null value it
\* carries (a null content or enabled leaves the stored value as it was),
\* and a field stops being overridden only by a reset of its profile or
\* when the profile itself is deleted with all data.
C40_NullKeepsOverride ==
    [][\A key \in DOMAIN prompt_overrides :
          \/ response'.op = "reset_prompts" /\ response'.profile_id = key[1]
          \/ response'.op = "delete_all_data" /\ prompt_profiles' = <<>>
          \/ /\ key \in DOMAIN prompt_overrides'
             /\ \A field \in {"content", "enabled"} :
                   prompt_overrides[key][field] # None =>
                      \/ prompt_overrides'[key][field] = prompt_overrides[key][field]
                      \/ /\ response'.op = "update_prompt_component"
                         /\ response'.status # 404
                         /\ last_override'[1].profile_id = key[1]
                         /\ last_override'[1].component_id = key[2]
                         /\ last_override'[1].payload[field] # None
                         /\ prompt_overrides'[key][field] = last_override'[1].payload[field]
      ]_vars

\* the last patch carried a null content and a non-null enabled for a
\* component whose content was overridden before: the content is still
\* the stored one
C40_Witness ==
    /\ response.op = "update_prompt_component"
    /\ response.status # 404
    /\ last_override # None
    /\ last_override[1].payload.content = None
    /\ last_override[1].payload.enabled = Some(FALSE)
    /\ last_override[1].component_id \in last_override[1].overrides_before
    /\ LET key == <<last_override[1].profile_id, last_override[1].component_id>>
       IN /\ key \in DOMAIN prompt_overrides
          /\ prompt_overrides[key].content = Some(Str("z", 9))
          /\ prompt_overrides[key].enabled = Some(FALSE)

====
